---- MODULE Spec2Model ----
(***************************************************************************)
(* Model of scjail-crawler-service: the incremental filter                 *)
(* (utils.rs), the transactional serializer and the backfill updater       *)
(* (serialize.rs), the walker (lib.rs) and the run wiring (main.rs).       *)
(*                                                                         *)
(* Option<T> is a sequence of length 0 (None) or 1 (Some(v)).  A nullable  *)
(* SQL column is encoded the same way.                                     *)
(***************************************************************************)
EXTENDS Integers, Sequences, FiniteSets, TLC

(***************************************************************************)
(* Bounds of the explored instance.                                        *)
(***************************************************************************)
\* the window main asks the filter for: the 45 most recent rows of main.rs:82, scaled
MaxWindow == 2
\* largest number of candidates in the listing walked by main
MaxListing == 2
\* largest number of candidates in the listing walked by fetch_records
MaxCandidates == 3
\* number of rows of the inmate table from which on the store refuses further inserts
MaxInmates == 3
\* largest table a direct call of the filter is explored on; a direct call of
\* update_null_img_record is explored on the tables of fewer rows
MaxRows == 3
\* number of database statements of one call that the fault injection can reach
MaxStmt == 14

None == <<>>

Some(v) == <<v>>

IsSome(o) == Len(o) = 1

Unwrap(o) == o[1]

Range(s) == {s[i] : i \in 1..Len(s)}

(***************************************************************************)
(* Postgres casts applied by the inmate INSERT (serialize.rs:436-437).     *)
(* Both casts are many-to-one on text and reject some texts.               *)
(***************************************************************************)
InvalidValue == -1

\* $7::date
CastDate(text) ==
    CASE text = "1990-01-02" -> 19900102
      [] text = "1990-1-2" -> 19900102
      [] text = "1985-07-04" -> 19850704
      [] OTHER -> InvalidValue

\* $9::TIMESTAMP WITHOUT TIME ZONE AT TIME ZONE 'America/Chicago'
\* (02:30 does not exist on the spring-forward day and is read as 03:30 CDT)
CastBookingDate(text) ==
    CASE text = "2024-03-10 02:30" -> 830
      [] text = "2024-03-10 03:30" -> 830
      [] text = "2024-03-11 09:00" -> 1500
      [] text = "2024-03-12 09:00" -> 2100
      [] OTHER -> InvalidValue

(***************************************************************************)
(* InmateProfile helpers (inmate.rs).                                      *)
(***************************************************************************)
\* SHA-256 is taken to be collision free: the digest is represented by its input
Sha256Hex(input) == "<" \o input \o ">"

get_hash_on_core_attributes(profile) ==
    "mugshots/" \o Sha256Hex(profile.first_name \o profile.last_name
                             \o profile.dob \o profile.booking_date_iso8601)

\* the criteria without the test for empty bytes
has_s3_upload_criteria_of_any_blob(profile, aws_s3_client) ==
    /\ IsSome(profile.img_blob)
    /\ aws_s3_client

\* serialize.rs:148-151
has_s3_upload_criteria(profile, aws_s3_client) ==
    /\ IsSome(profile.img_blob)
    /\ Unwrap(profile.img_blob) # ""
    /\ aws_s3_client

(***************************************************************************)
(* The relational store.  A transaction works on a private copy `tx.db` of *)
(* the committed tables; commit publishes the copy, drop discards it.      *)
(* Statements of one call are numbered in the order they are issued;       *)
(* `failAt` is the number of the statement on which the store faults       *)
(* (0: no fault).  After a failed statement Postgres refuses every further *)
(* statement of the same transaction.  A SERIAL id is larger than every id *)
(* of the table; the gaps that rolled-back inserts leave in a sequence do  *)
(* not change the order of ids and are not represented.  Of the columns of *)
(* inmate, the ones no statement of the program reads back or constrains   *)
(* (middle_name .. eye_color, embedding) are left out of the rows.         *)
(***************************************************************************)
\* width of the i32 that amount_pennies is bound as, scaled for exploration
I32Bits == 3

EmptyDb ==
    [inmate |-> <<>>, alias |-> {}, inmate_alias |-> {}, img |-> <<>>,
     bond |-> <<>>, charge |-> <<>>]

Faulted(tx, failAt) == tx.aborted \/ tx.n + 1 = failAt

StmtOk(tx) == [tx EXCEPT !.n = @ + 1]

StmtFailed(tx) == [tx EXCEPT !.n = @ + 1, !.aborted = TRUE]

\* pool.begin()
Begin(db) == [db |-> db, n |-> 1, aborted |-> FALSE]

\* id SERIAL PRIMARY KEY
NextId(ids) == IF ids = {} THEN 1 ELSE (CHOOSE i \in ids : \A j \in ids : j <= i) + 1

\* the table without its UNIQUE constraint
InmateConstraintsWithoutUnique(inmate, profile) ==
    /\ profile.first_name # ""
    /\ profile.last_name # ""
    /\ CastDate(profile.dob) # InvalidValue
    /\ CastBookingDate(profile.booking_date_iso8601) # InvalidValue

\* CREATE TABLE inmate: NOT NULL / CHECK / UNIQUE constraints and the casts of the INSERT
InmateConstraintsHold(inmate, profile) ==
    /\ profile.first_name # ""
    /\ profile.last_name # ""
    /\ CastDate(profile.dob) # InvalidValue
    /\ CastBookingDate(profile.booking_date_iso8601) # InvalidValue
    /\ \A r \in Range(inmate) :
          <<r.first_name, r.last_name, r.dob, r.booking_date>>
            # <<profile.first_name, profile.last_name, CastDate(profile.dob),
                 CastBookingDate(profile.booking_date_iso8601)>>

\* INSERT INTO inmate ... RETURNING id
InsertInmate(tx, profile, s3_img_url, failAt) ==
    IF Faulted(tx, failAt)
    THEN [ok |-> FALSE, id |-> 0, tx |-> StmtFailed(tx)]
    ELSE LET id == NextId({r.id : r \in Range(tx.db.inmate)})
             row == [id |-> id,
                     first_name |-> profile.first_name,
                     last_name |-> profile.last_name,
                     dob |-> CastDate(profile.dob),
                     booking_date |-> CastBookingDate(profile.booking_date_iso8601),
                     img_url |-> Some(s3_img_url),
                     scil_sysid |-> profile.scil_sys_id]
         IN IF InmateConstraintsHold(tx.db.inmate, profile)
            THEN [ok |-> TRUE, id |-> id,
                  tx |-> StmtOk([tx EXCEPT !.db.inmate = Append(@, row)])]
            ELSE [ok |-> FALSE, id |-> 0, tx |-> StmtFailed(tx)]

\* the UPDATE without its WHERE clause
SetImgUrlOfEveryRow(inmate, img_url, inmate_id) ==
    [i \in 1..Len(inmate) |-> [inmate[i] EXCEPT !.img_url = Some(img_url)]]

\* UPDATE inmate SET img_url = $1 WHERE id = $2
SetImgUrl(inmate, img_url, inmate_id) ==
    [i \in 1..Len(inmate) |->
        IF inmate[i].id = inmate_id
        THEN [inmate[i] EXCEPT !.img_url = Some(img_url)]
        ELSE inmate[i]]

\* s3_utils::upload_img_to_env_bucket_s3: put_object replaces the object under the key
PutObject(s3, key, body) ==
    {o \in s3 : o.key # key} \cup {[key |-> key, body |-> body]}

\* Itertools::unique(): first occurrences, order kept
RECURSIVE Unique(_)
Unique(s) ==
    IF s = <<>> THEN <<>>
    ELSE LET init == Unique(SubSeq(s, 1, Len(s) - 1))
             last == s[Len(s)]
         IN IF last \in Range(init) THEN init ELSE Append(init, last)

\* an INSERT INTO alias without its ON CONFLICT clause on a table without UNIQUE
serialize_alias_without_conflict_clause(alias, tx, failAt) ==
    IF Faulted(tx, failAt) \/ alias = ""
    THEN [ok |-> FALSE, id |-> 0, tx |-> StmtFailed(tx)]
    ELSE LET id == NextId({a.id : a \in tx.db.alias})
         IN [ok |-> TRUE, id |-> id,
             tx |-> StmtOk([tx EXCEPT !.db.alias = @ \cup {[id |-> id, alias |-> alias]}])]

\* INSERT INTO alias ... ON CONFLICT (alias) DO UPDATE ... RETURNING id
serialize_alias(alias, tx, failAt) ==
    IF Faulted(tx, failAt) \/ alias = ""
    THEN [ok |-> FALSE, id |-> 0, tx |-> StmtFailed(tx)]
    ELSE LET existing == {a \in tx.db.alias : a.alias = alias}
             id == NextId({a.id : a \in tx.db.alias})
         IN IF existing # {}
            THEN [ok |-> TRUE, id |-> (CHOOSE a \in existing : TRUE).id,
                  tx |-> StmtOk(tx)]
            ELSE [ok |-> TRUE, id |-> id,
                  tx |-> StmtOk([tx EXCEPT !.db.alias =
                                   @ \cup {[id |-> id, alias |-> alias]}])]

\* INSERT INTO inmate_alias (inmate_id, alias_id)
InsertInmateAlias(tx, inmate_id, alias_id, failAt) ==
    IF \/ Faulted(tx, failAt)
       \/ [inmate_id |-> inmate_id, alias_id |-> alias_id] \in tx.db.inmate_alias
    THEN [ok |-> FALSE, tx |-> StmtFailed(tx)]
    ELSE [ok |-> TRUE,
          tx |-> StmtOk([tx EXCEPT !.db.inmate_alias =
                           @ \cup {[inmate_id |-> inmate_id, alias_id |-> alias_id]}])]

\* the alias loop of serialize_profile (serialize.rs:503-528)
RECURSIVE SerializeAliases(_, _, _, _)
SerializeAliases(aliases, inmate_id, tx, failAt) ==
    IF aliases = <<>> THEN [ok |-> TRUE, tx |-> tx]
    ELSE LET alias == Head(aliases)
             rest == Tail(aliases)
         IN IF alias = ""
            THEN SerializeAliases(rest, inmate_id, tx, failAt)
            ELSE LET up == serialize_alias(alias, tx, failAt)
                 IN IF ~up.ok
                    THEN SerializeAliases(rest, inmate_id, up.tx, failAt)
                    ELSE LET link == InsertInmateAlias(up.tx, inmate_id, up.id, failAt)
                         IN IF ~link.ok
                            THEN [ok |-> FALSE, tx |-> link.tx]
                            ELSE SerializeAliases(rest, inmate_id, link.tx, failAt)

\* an img row written for present bytes only
InsertImgOfPresentBytes(tx, inmate_id, img_blob, failAt) ==
    IF Faulted(tx, failAt)
    THEN [ok |-> FALSE, tx |-> StmtFailed(tx)]
    ELSE IF ~IsSome(img_blob)
    THEN [ok |-> TRUE, tx |-> StmtOk(tx)]
    ELSE [ok |-> TRUE,
          tx |-> StmtOk([tx EXCEPT !.db.img =
                           Append(@, [inmate_id |-> inmate_id, img |-> img_blob])])]

\* INSERT INTO img (inmate_id, img)
InsertImg(tx, inmate_id, img_blob, failAt) ==
    IF Faulted(tx, failAt)
    THEN [ok |-> FALSE, tx |-> StmtFailed(tx)]
    ELSE [ok |-> TRUE,
          tx |-> StmtOk([tx EXCEPT !.db.img =
                           Append(@, [inmate_id |-> inmate_id, img |-> img_blob])])]

\* the patch statement counted but without effect
ClearImgUrlSkipped(tx, inmate_id, failAt) ==
    IF Faulted(tx, failAt)
    THEN [ok |-> FALSE, tx |-> StmtFailed(tx)]
    ELSE [ok |-> TRUE, tx |-> StmtOk(tx)]

\* UPDATE inmate SET img_url = '' WHERE id = $1 (serialize.rs:487-496)
ClearImgUrl(tx, inmate_id, failAt) ==
    IF Faulted(tx, failAt)
    THEN [ok |-> FALSE, tx |-> StmtFailed(tx)]
    ELSE [ok |-> TRUE,
          tx |-> StmtOk([tx EXCEPT !.db.inmate = SetImgUrl(@, "", inmate_id)])]

\* the key the row is inserted with (serialize.rs:412-418)
S3ImgUrl(profile, aws_s3_client) ==
    IF has_s3_upload_criteria(profile, aws_s3_client)
    THEN get_hash_on_core_attributes(profile)
    ELSE ""

\* what happened to the image: "none" (no upload attempted), "ok" or "failed"
UploadOutcome(profile, aws_s3_client, uploadOk) ==
    IF ~has_s3_upload_criteria(profile, aws_s3_client) THEN "none"
    ELSE IF uploadOk THEN "ok" ELSE "failed"

\* `?` on a failed statement of serialize_profile
ProfileFailed(tx, s3, upload) ==
    [ok |-> FALSE, inmate_id |-> 0, tx |-> tx, s3 |-> s3, upload |-> upload]

\* serialize_profile from the img insert on (serialize.rs:531-545)
ProfileImg(inmate_id, im, s3, upload) ==
    IF ~im.ok
    THEN ProfileFailed(im.tx, s3, upload)
    ELSE [ok |-> TRUE, inmate_id |-> inmate_id, tx |-> im.tx, s3 |-> s3, upload |-> upload]

\* serialize_profile after the alias loop (serialize.rs:503-542)
ProfileAliases(profile, inmate_id, al, s3, upload, failAt) ==
    IF ~al.ok
    THEN ProfileFailed(al.tx, s3, upload)
    ELSE ProfileImg(inmate_id, InsertImg(al.tx, inmate_id, profile.img_blob, failAt),
                    s3, upload)

\* `profile.aliases` flattened and deduplicated (serialize.rs:503-506)
UniqueAliases(profile) ==
    IF IsSome(profile.aliases) THEN Unique(Unwrap(profile.aliases)) ELSE <<>>

\* serialize_profile after the upload and the patch of a failed upload (serialize.rs:471-528)
ProfileUpload(profile, inmate_id, patch, s3, upload, failAt) ==
    IF ~patch.ok
    THEN ProfileFailed(patch.tx, s3, upload)
    ELSE ProfileAliases(profile, inmate_id,
                        SerializeAliases(UniqueAliases(profile), inmate_id, patch.tx,
                                         failAt),
                        s3, upload, failAt)

\* an offload that does not wait for the outcome of the INSERT
ProfileInsertUploadsFirst(profile, ins, s3, s3_img_url, upload, failAt) ==
    IF ~ins.ok
    THEN ProfileFailed(ins.tx,
                       IF upload = "ok"
                       THEN PutObject(s3, s3_img_url, Unwrap(profile.img_blob))
                       ELSE s3,
                       upload)
    ELSE ProfileUpload(profile, ins.id,
                       IF upload = "failed"
                       THEN ClearImgUrl(ins.tx, ins.id, failAt)
                       ELSE [ok |-> TRUE, tx |-> ins.tx],
                       IF upload = "ok"
                       THEN PutObject(s3, s3_img_url, Unwrap(profile.img_blob))
                       ELSE s3,
                       upload, failAt)

\* serialize_profile after the INSERT (serialize.rs:425-499): the image is uploaded under
\* the key of the row; after a failed upload the key is cleared
ProfileInsert(profile, ins, s3, s3_img_url, upload, failAt) ==
    IF ~ins.ok
    THEN ProfileFailed(ins.tx, s3, "none")
    ELSE ProfileUpload(profile, ins.id,
                       IF upload = "failed"
                       THEN ClearImgUrl(ins.tx, ins.id, failAt)
                       ELSE [ok |-> TRUE, tx |-> ins.tx],
                       IF upload = "ok"
                       THEN PutObject(s3, s3_img_url, Unwrap(profile.img_blob))
                       ELSE s3,
                       upload, failAt)

serialize_profile(profile, tx, s3, aws_s3_client, uploadOk, failAt) ==
    ProfileInsert(profile,
                  InsertInmate(tx, profile, S3ImgUrl(profile, aws_s3_client), failAt),
                  s3, S3ImgUrl(profile, aws_s3_client),
                  UploadOutcome(profile, aws_s3_client, uploadOk), failAt)

\* `bond.bond_amount as i32`: keeps the low bits, two's complement
AsI32(x) ==
    LET m == x % (2 ^ I32Bits)
    IN IF m >= 2 ^ (I32Bits - 1) THEN m - 2 ^ I32Bits ELSE m

serialize_bond(bond, inmate_id, tx, failAt) ==
    IF Faulted(tx, failAt)
    THEN [ok |-> FALSE, tx |-> StmtFailed(tx)]
    ELSE [ok |-> TRUE,
          tx |-> StmtOk([tx EXCEPT !.db.bond =
                           Append(@, [inmate_id |-> inmate_id,
                                      type |-> bond.bond_type,
                                      amount_pennies |-> AsI32(bond.bond_amount)])])]

serialize_charge(charge, inmate_id, tx, failAt) ==
    IF Faulted(tx, failAt)
    THEN [ok |-> FALSE, tx |-> StmtFailed(tx)]
    ELSE [ok |-> TRUE,
          tx |-> StmtOk([tx EXCEPT !.db.charge =
                           Append(@, [inmate_id |-> inmate_id,
                                      description |-> charge.description,
                                      grade |-> charge.grade,
                                      offense_date |-> charge.offense_date])])]

\* `for bond in record.bond.bonds { serialize_bond(..).await?; }`
RECURSIVE SerializeBonds(_, _, _, _)
SerializeBonds(bonds, inmate_id, tx, failAt) ==
    IF bonds = <<>> THEN [ok |-> TRUE, tx |-> tx]
    ELSE LET b == serialize_bond(Head(bonds), inmate_id, tx, failAt)
         IN IF ~b.ok THEN b ELSE SerializeBonds(Tail(bonds), inmate_id, b.tx, failAt)

\* `for charge in record.charges.charges { serialize_charge(..).await?; }`
RECURSIVE SerializeCharges(_, _, _, _)
SerializeCharges(charges, inmate_id, tx, failAt) ==
    IF charges = <<>> THEN [ok |-> TRUE, tx |-> tx]
    ELSE LET c == serialize_charge(Head(charges), inmate_id, tx, failAt)
         IN IF ~c.ok THEN c ELSE SerializeCharges(Tail(charges), inmate_id, c.tx, failAt)

\* transaction.commit(): publishes the transaction's tables
Commit(db, tx) == tx.db

\* a drop that leaves the rows of the transaction in the tables
RollbackKeepsRows(db, tx) == tx.db

\* the Transaction is dropped on the error paths: sqlx rolls it back
Rollback(db, tx) == db

\* what a call of serialize_record that started on the tables `db` leaves and returns:
\* the transaction is committed on Ok and dropped on Err
SerializeOutcome(result, inmate_id, db, tx, s3, upload) ==
    [result |-> result, inmate_id |-> inmate_id,
     db |-> IF result = "Ok" THEN Commit(db, tx) ELSE Rollback(db, tx),
     s3 |-> s3, upload |-> upload,
     db_error |-> tx.aborted, wrote |-> tx.db # db, stmts |-> tx.n]

\* serialize_record after the charges (serialize.rs:316-325): commit
RecordCharges(db, p, c, failAt) ==
    IF ~c.ok
    THEN SerializeOutcome("Err", 0, db, c.tx, p.s3, p.upload)
    ELSE IF Faulted(c.tx, failAt)
    THEN SerializeOutcome("Err", 0, db, StmtFailed(c.tx), p.s3, p.upload)
    ELSE SerializeOutcome("Ok", p.inmate_id, db, StmtOk(c.tx), p.s3, p.upload)

\* serialize_record after the bonds (serialize.rs:310-318)
RecordBonds(record, db, p, b, failAt) ==
    IF ~b.ok
    THEN SerializeOutcome("Err", 0, db, b.tx, p.s3, p.upload)
    ELSE RecordCharges(db, p, SerializeCharges(record.charges, p.inmate_id, b.tx, failAt),
                       failAt)

\* serialize_record after serialize_profile (serialize.rs:307-315)
RecordProfile(record, db, p, failAt) ==
    IF ~p.ok
    THEN SerializeOutcome("Err", 0, db, p.tx, p.s3, p.upload)
    ELSE RecordBonds(record, db, p, SerializeBonds(record.bond, p.inmate_id, p.tx, failAt),
                     failAt)

\* statement 1 is pool.begin()
serialize_record(record, db, s3, aws_s3_client, uploadOk, failAt) ==
    IF failAt = 1
    THEN SerializeOutcome("Err", 0, db, [Begin(db) EXCEPT !.aborted = TRUE], s3, "none")
    ELSE RecordProfile(record, db,
                       serialize_profile(record.profile, Begin(db), s3, aws_s3_client,
                                         uploadOk, failAt),
                       failAt)

\* the UPDATE issued before the outcome of the upload is known
update_null_img_record_early(inmate_id, record, db, s3, aws_s3_client, uploadOk, failAt) ==
    IF ~has_s3_upload_criteria(record.profile, aws_s3_client)
    THEN [result |-> "Err", db |-> db, s3 |-> s3, upload |-> "none", db_error |-> FALSE]
    ELSE LET s3_img_url == get_hash_on_core_attributes(record.profile)
             updated == [db EXCEPT !.inmate = SetImgUrl(@, s3_img_url, inmate_id)]
         IN IF failAt = 1
            THEN [result |-> "Err", db |-> db, s3 |-> s3,
                  upload |-> IF uploadOk THEN "ok" ELSE "failed", db_error |-> TRUE]
            ELSE IF ~uploadOk
            THEN [result |-> "Err", db |-> updated, s3 |-> s3, upload |-> "failed",
                  db_error |-> FALSE]
            ELSE [result |-> "Ok", db |-> updated,
                  s3 |-> PutObject(s3, s3_img_url, Unwrap(record.profile.img_blob)),
                  upload |-> "ok", db_error |-> FALSE]

\* `upload` as in serialize_profile; UPDATE inmate SET img_url = $1 WHERE id = $2 runs on the
\* pool, outside any transaction
update_null_img_record(inmate_id, record, db, s3, aws_s3_client, uploadOk, failAt) ==
    IF ~IsSome(record.profile.img_blob)
    THEN [result |-> "Err", db |-> db, s3 |-> s3, upload |-> "none", db_error |-> FALSE]
    ELSE IF ~has_s3_upload_criteria(record.profile, aws_s3_client)
    THEN [result |-> "Err", db |-> db, s3 |-> s3, upload |-> "none", db_error |-> FALSE]
    ELSE LET s3_img_url == get_hash_on_core_attributes(record.profile)
         IN IF ~uploadOk
            THEN [result |-> "Err", db |-> db, s3 |-> s3, upload |-> "failed",
                  db_error |-> FALSE]
            ELSE LET s3up == PutObject(s3, s3_img_url, Unwrap(record.profile.img_blob))
                 IN IF failAt = 1
                    THEN [result |-> "Err", db |-> db, s3 |-> s3up, upload |-> "ok",
                          db_error |-> TRUE]
                    ELSE [result |-> "Ok",
                          db |-> [db EXCEPT !.inmate = SetImgUrl(@, s3_img_url, inmate_id)],
                          s3 |-> s3up, upload |-> "ok", db_error |-> FALSE]

(***************************************************************************)
(* The incremental filter (utils.rs).                                      *)
(***************************************************************************)
\* SELECT id, scil_sysid, img_url FROM inmate ORDER BY id DESC LIMIT n
RECURSIVE RecentRecords(_, _)
RecentRecords(n, rows) ==
    IF n <= 0 \/ rows = {} THEN <<>>
    ELSE LET top == CHOOSE r \in rows : \A q \in rows : q.id <= r.id
         IN <<top>> \o RecentRecords(n - 1, rows \ {top})

\* an insert that keeps the value already stored under the key
MapInsertKeepsFirst(map, key, value) ==
    [k \in DOMAIN map \cup {key} |-> IF k \in DOMAIN map THEN map[k] ELSE value]

\* HashMap::insert: a later insert under the same key replaces the value
MapInsert(map, key, value) ==
    [k \in DOMAIN map \cup {key} |-> IF k = key THEN value ELSE map[k]]

\* a loop that files every keyed row under the updatelist
ClassifyRecordsWithoutBlacklist(records, blacklist, updatelist) ==
    [blacklist |-> {},
     updatelist |-> [k \in {Unwrap(r.scil_sysid) :
                              r \in {q \in Range(records) : IsSome(q.scil_sysid)}} |->
                        (CHOOSE r \in Range(records) : r.scil_sysid = Some(k)).id]]

\* the loop over recent_records (utils.rs:62-75)
RECURSIVE ClassifyRecords(_, _, _)
ClassifyRecords(records, blacklist, updatelist) ==
    IF records = <<>> THEN [blacklist |-> blacklist, updatelist |-> updatelist]
    ELSE LET record == Head(records)
         IN IF IsSome(record.scil_sysid)
            THEN IF ~IsSome(record.img_url) \/ Unwrap(record.img_url) = ""
                 THEN ClassifyRecords(Tail(records), blacklist,
                        MapInsert(updatelist, Unwrap(record.scil_sysid), record.id))
                 ELSE ClassifyRecords(Tail(records),
                        blacklist \cup {Unwrap(record.scil_sysid)}, updatelist)
            ELSE ClassifyRecords(Tail(records), blacklist, updatelist)

get_blacklist_and_updatelist(n, inmate) ==
    ClassifyRecords(RecentRecords(n, Range(inmate)), {}, <<>>)

(***************************************************************************)
(* The explored inputs: detail pages of the site.                          *)
(***************************************************************************)
Keys == {"k1", "k2"}

\* <<first name, last name, date of birth, booking date time>> as printed by the site.
\* CoreA and CoreA2 are cast to the same date and instant; CoreA and CoreB concatenate to
\* the same text.
CoreA == <<"a", "bc", "1990-01-02", "2024-03-10 03:30">>

CoreA2 == <<"a", "bc", "1990-1-2", "2024-03-10 02:30">>

CoreB == <<"ab", "c", "1990-01-02", "2024-03-10 03:30">>

CoreC == <<"a", "bc", "1985-07-04", "2024-03-11 09:00">>

Charge1 == [description |-> "theft", grade |-> "Felony", offense_date |-> "2024-03-09"]

Charge2 == [description |-> "trespass", grade |-> "Misdemeanor", offense_date |-> "2024-03-09"]

\* the second amount does not fit the scaled i32
BondSmall == [bond_type |-> "cash", bond_amount |-> 2]

BondLarge == [bond_type |-> "surety", bond_amount |-> 5]

\* image, aliases, bonds and charges found on one detail page
DetailNoImg ==
    [img_blob |-> None, aliases |-> None, bond |-> <<>>, charges |-> <<Charge1>>]

DetailEmptyImg ==
    [img_blob |-> Some(""), aliases |-> None, bond |-> <<>>, charges |-> <<Charge1>>]

DetailFull ==
    [img_blob |-> Some("jpg"), aliases |-> Some(<<"x", "y", "x">>),
     bond |-> <<BondSmall, BondLarge>>, charges |-> <<Charge1, Charge2>>]

MakeRecord(core, sys_id, d) ==
    [profile |-> [first_name |-> core[1], last_name |-> core[2], dob |-> core[3],
                  booking_date_iso8601 |-> core[4], aliases |-> d.aliases,
                  img_blob |-> d.img_blob, scil_sys_id |-> sys_id,
                  embedding |-> None],
     bond |-> d.bond, charges |-> d.charges]

\* what Record::build can return for a detail page: profile.scil_sys_id = Some(sys_id)
\* (inmate.rs:58), four non-empty core attributes, at least one charge.  The page of a key
\* changes over time: the photo arrives late, a name is corrected.  An image request
\* answered with an empty body leaves img_blob = Some of no bytes (inmate.rs:62-85).
BuiltRecords(sys_id) ==
    IF sys_id = "k1"
    THEN { MakeRecord(CoreA, Some(sys_id), DetailNoImg),
           MakeRecord(CoreB, Some(sys_id), DetailFull) }
    ELSE { MakeRecord(CoreC, Some(sys_id), DetailEmptyImg),
           MakeRecord(CoreA2, Some(sys_id), DetailFull) }

SeqsUpTo(S, n) == UNION {[1..k -> S] : k \in 0..n}

Reverse(s) == [i \in 1..Len(s) |-> s[Len(s) + 1 - i]]

(***************************************************************************)
(* State.                                                                  *)
(***************************************************************************)
VARIABLES
    db,                \* committed tables of the relational store
    s3,                \* objects of the bucket: [key, body]
    pc,                \* position of the running program
    program,           \* "main", "fetch_records", "filter", "backfill" or "none"
    aws_s3_client,     \* Option<S3Client> is Some
    oai_client,        \* Option<Client<OpenAIConfig>> is Some
    stop_early,        \* STOP_EARLY is set
    blacklist,         \* HashSet<String>
    updatelist,        \* HashMap<String, i32>
    sys_ids,           \* candidate keys in the order the walker visits them
    idx,               \* candidates the walker is done with
    new_records,       \* Vec<Record> handed to serialize_records
    update_records,    \* Vec<(i32, Record)> handed to update_null_img_records
    ridx,              \* Records serialize_records is done with
    uidx,              \* pairs update_null_img_records is done with
    inserted_count,
    failed_count,
    updated_count,
    update_failed_count,
    builds,            \* history: Record::build calls of the walker, [sys_id, record]
    last,              \* history: the latest serialize_record / update_null_img_record call
    returned,          \* history: what the functions of the run returned
    n,                 \* the argument of a direct call of get_blacklist_and_updatelist
    arg,               \* the argument of a direct call of a function without side effects
    ret,               \* what that call returned
    net                \* the outbound requests of a walker run followed request by request

store == <<db, s3>>

direct == <<n, arg, ret>>

env == <<aws_s3_client, oai_client>>

walker == <<stop_early, sys_ids, idx, builds, net>>

lists == <<blacklist, updatelist>>

handed == <<new_records, update_records>>

batch == <<ridx, uidx, inserted_count, failed_count, updated_count, update_failed_count>>

vars == <<db, s3, pc, program, aws_s3_client, oai_client, stop_early, blacklist,
          updatelist, sys_ids, idx, new_records, update_records, ridx, uidx,
          inserted_count, failed_count, updated_count, update_failed_count, builds,
          last, returned, n, arg, ret, net>>

\* no request is open, none was sent: `open` holds the requests in flight, `slept` the
\* milliseconds slept since the latest request was sent, `gaps` the values `slept` had
\* when a request followed another
NoRequests == [open |-> {}, sent |-> FALSE, slept |-> 0, gaps |-> {}]

NoCall ==
    [op |-> "none", record |-> None, inmate_id |-> 0, result |-> "none",
     upload |-> "none", db_error |-> FALSE, wrote |-> FALSE, embedding |-> "none"]

NothingReturned ==
    [main |-> "none", connect |-> "none", create_dbs |-> "none",
     get_blacklist_and_updatelist |-> "none", fetch |-> "none",
     serialize_records |-> "none", count_query |-> "none",
     update_null_img_records |-> "none"]

\* the state of a process that has not started: no locals, no clients
NotStarted ==
    /\ pc = "idle"
    /\ program = "none"
    /\ aws_s3_client = FALSE
    /\ oai_client = FALSE
    /\ stop_early = FALSE
    /\ blacklist = {}
    /\ updatelist = <<>>
    /\ sys_ids = <<>>
    /\ idx = 0
    /\ new_records = <<>>
    /\ update_records = <<>>
    /\ ridx = 0
    /\ uidx = 0
    /\ inserted_count = 0
    /\ failed_count = 0
    /\ updated_count = 0
    /\ update_failed_count = 0
    /\ builds = <<>>
    /\ last = NoCall
    /\ returned = NothingReturned
    /\ n = 0
    /\ net = NoRequests

\* create_dbs on an empty database, an empty bucket
Init ==
    /\ db = EmptyDb
    /\ s3 = {}
    /\ arg = None
    /\ ret = None
    /\ NotStarted

(***************************************************************************)
(* main (main.rs).                                                         *)
(***************************************************************************)
\* what main has done once the filter is queried (main.rs:74-82), by the first of its
\* three steps that fails: the pool connects (`?`), create_dbs runs (a failed statement of
\* run_sql_batch panics at its `expect`, serialize.rs:32-35; create_inmate_alias returns
\* its error, serialize.rs:41-54) and the filter is queried (`?`)
Prerequisites(failed) ==
    CASE failed = "connect" ->
           [connect |-> "Err", create_dbs |-> "none",
            get_blacklist_and_updatelist |-> "none", main |-> "Err"]
      [] failed = "create_dbs: expect" ->
           [connect |-> "Ok", create_dbs |-> "panic",
            get_blacklist_and_updatelist |-> "none", main |-> "panic"]
      [] failed = "create_dbs: ?" ->
           [connect |-> "Ok", create_dbs |-> "Err",
            get_blacklist_and_updatelist |-> "none", main |-> "Err"]
      [] failed = "get_blacklist_and_updatelist" ->
           [connect |-> "Ok", create_dbs |-> "Ok",
            get_blacklist_and_updatelist |-> "Err", main |-> "Err"]
      [] OTHER ->
           [connect |-> "Ok", create_dbs |-> "Ok",
            get_blacklist_and_updatelist |-> "Ok", main |-> "none"]

\* the pool connects, create_dbs runs and the filter is queried.  The two optional clients
\* are built before (main.rs:24-58); nothing reads them before serialize_records is
\* called, and the model draws them there.
MainStart ==
    /\ pc = "idle"
    /\ program' = "main"
    /\ \E failed \in {"none", "connect", "create_dbs: expect", "create_dbs: ?",
                      "get_blacklist_and_updatelist"} :
         LET did == Prerequisites(failed)
         IN /\ returned' = [returned EXCEPT
                              !.connect = did.connect,
                              !.create_dbs = did.create_dbs,
                              !.get_blacklist_and_updatelist =
                                  did.get_blacklist_and_updatelist,
                              !.main = did.main]
            /\ IF failed = "none"
               THEN LET f == get_blacklist_and_updatelist(MaxWindow, db.inmate)
                    IN /\ blacklist' = f.blacklist
                       /\ updatelist' = f.updatelist
                       /\ pc' = "listing"
               ELSE /\ pc' = "exit"
                    /\ UNCHANGED lists
    /\ UNCHANGED <<direct, store, env, walker, handed, batch, last>>

\* the `?` operator: an Err leaves main
Tried(result) == IF result = "Err" THEN "Err" ELSE "()"

\* `match .. { Ok(_) => (), Err(e) => warn!(..) }` (main.rs:95-98, 99-102)
Warned(result) == "()"

\* `Ok(())`
MainReturn ==
    /\ pc = "main_return"
    /\ pc' = "exit"
    /\ returned' = [returned EXCEPT !.main = "Ok"]
    /\ UNCHANGED <<direct, store, env, program, walker, lists, handed, batch, last>>

\* the process ends: its locals are gone, the store and the bucket stay
Exit ==
    /\ pc = "exit"
    /\ pc' = "idle"
    /\ program' = "none"
    /\ aws_s3_client' = FALSE
    /\ oai_client' = FALSE
    /\ stop_early' = FALSE
    /\ blacklist' = {}
    /\ updatelist' = <<>>
    /\ sys_ids' = <<>>
    /\ idx' = 0
    /\ new_records' = <<>>
    /\ update_records' = <<>>
    /\ ridx' = 0
    /\ uidx' = 0
    /\ inserted_count' = 0
    /\ failed_count' = 0
    /\ updated_count' = 0
    /\ update_failed_count' = 0
    /\ builds' = <<>>
    /\ last' = NoCall
    /\ returned' = NothingReturned
    /\ net' = NoRequests
    /\ UNCHANGED <<direct, store>>

(***************************************************************************)
(* The filtered walker called by main.                                     *)
(***************************************************************************)
\* the listing is fetched and STOP_EARLY is read; candidates are walked oldest first
FetchRecordsFilteredStart ==
    /\ pc = "listing"
    /\ program = "main"
    /\ \/ /\ pc' = "exit"
          /\ returned' = [returned EXCEPT !.fetch = "Err", !.main = "Err"]
          /\ UNCHANGED <<sys_ids, stop_early>>
       \/ \E listing \in SeqsUpTo(Keys, MaxListing), stop \in BOOLEAN :
             /\ sys_ids' = Reverse(listing)
             /\ stop_early' = stop
             /\ pc' = "walk"
             /\ UNCHANGED returned
    /\ UNCHANGED <<direct, store, env, program, lists, idx, builds, net, handed, batch,
                   last>>

\* where a built Record goes
Route(sys_id, record, bl, ul, news, updates) ==
    IF sys_id \in DOMAIN ul
    THEN [new_records |-> news, update_records |-> Append(updates, <<ul[sys_id], record>>)]
    ELSE [new_records |-> Append(news, record), update_records |-> updates]

\* one candidate: skipped without a fetch, or fetched, built and routed
FetchRecordsFilteredStep ==
    /\ pc = "walk"
    /\ program = "main"
    /\ idx < Len(sys_ids)
    /\ LET sys_id == sys_ids[idx + 1]
       IN IF sys_id \in blacklist
          THEN /\ idx' = idx + 1
               /\ UNCHANGED <<handed, builds>>
          ELSE /\ \E built \in {None} \cup {Some(r) : r \in BuiltRecords(sys_id)} :
                    /\ builds' = Append(builds, [sys_id |-> sys_id, record |-> built])
                    /\ IF IsSome(built)
                       THEN LET to == Route(sys_id, Unwrap(built), blacklist, updatelist,
                                            new_records, update_records)
                            IN /\ new_records' = to.new_records
                               /\ update_records' = to.update_records
                       ELSE UNCHANGED handed
               /\ idx' = IF stop_early THEN Len(sys_ids) ELSE idx + 1
    /\ UNCHANGED <<direct, store, env, pc, program, stop_early, lists, sys_ids, net, batch,
                   last, returned>>

\* the two vectors are returned and the walker's locals are gone; main does not read the
\* two lists again and goes on to call serialize_records with the clients its environment
\* gave it
FetchRecordsFilteredReturn ==
    /\ pc = "walk"
    /\ program = "main"
    /\ idx = Len(sys_ids)
    /\ pc' = "serialize_records"
    /\ returned' = [returned EXCEPT !.fetch = "Ok"]
    /\ stop_early' = FALSE
    /\ sys_ids' = <<>>
    /\ idx' = 0
    /\ builds' = <<>>
    /\ blacklist' = {}
    /\ updatelist' = <<>>
    /\ \E s3c \in BOOLEAN, oai \in BOOLEAN :
         /\ aws_s3_client' = s3c
         /\ oai_client' = oai
    /\ UNCHANGED <<direct, store, program, net, handed, batch, last>>

(***************************************************************************)
(* serialize_records and update_null_img_records (serialize.rs).           *)
(***************************************************************************)
\* gather_openai_embedding: sets profile.embedding on success only
WithEmbedding(record, embedding) ==
    IF embedding = "ok"
    THEN [record EXCEPT !.profile.embedding = Some("vector")]
    ELSE record

\* a tally that forgets the failures
TallyOfSuccesses(result, ok_count, err_count) ==
    IF result = "Ok" THEN <<ok_count + 1, err_count>> ELSE <<ok_count, err_count>>

\* `Ok(_) => inserted_count += 1`, `Err(e) => failed_count += 1`
Tally(result, ok_count, err_count) ==
    IF result = "Ok" THEN <<ok_count + 1, err_count>> ELSE <<ok_count, err_count + 1>>

\* one iteration of the loop: the embedding is gathered, serialize_record is called and
\* its result is counted
SerializeRecordsStep ==
    /\ pc = "serialize_records"
    /\ ridx < Len(new_records)
    /\ \E embedding \in {"none", "ok", "failed"}, uploadOk \in BOOLEAN, failAt \in 0..MaxStmt :
         LET record == new_records[ridx + 1]
             asked == ~IsSome(record.profile.embedding) /\ oai_client
             sent == WithEmbedding(record, embedding)
             out == serialize_record(sent, db, s3, aws_s3_client, uploadOk, failAt)
         IN /\ (embedding = "none") <=> ~asked
            /\ failAt <= out.stmts
            /\ ~uploadOk => out.upload = "failed"
            /\ Len(db.inmate) >= MaxInmates => failAt \in 1..2
            /\ db' = out.db
            /\ s3' = out.s3
            /\ inserted_count' = Tally(out.result, inserted_count, failed_count)[1]
            /\ failed_count' = Tally(out.result, inserted_count, failed_count)[2]
            /\ last' = [op |-> "serialize_record", record |-> Some(sent),
                        inmate_id |-> out.inmate_id, result |-> out.result,
                        upload |-> out.upload, db_error |-> out.db_error,
                        wrote |-> out.wrote, embedding |-> embedding]
    /\ ridx' = ridx + 1
    /\ UNCHANGED <<direct, env, pc, program, walker, lists, handed, uidx, updated_count,
                   update_failed_count, returned>>

\* the closing log line runs inmate_count; its failure is the function's only error.
\* The consumed vector and the counters end with the call.
SerializeRecordsReturn ==
    /\ pc = "serialize_records"
    /\ ridx = Len(new_records)
    /\ \E countOk \in BOOLEAN :
         LET result == IF countOk THEN "Ok" ELSE "Err"
         IN /\ returned' = [returned EXCEPT
                              !.serialize_records = result,
                              !.count_query = IF countOk THEN "ok" ELSE "failed",
                              !.main = IF Warned(result) = "()" THEN @ ELSE "Err"]
            /\ pc' = IF Warned(result) = "()" THEN "update_null_img_records" ELSE "exit"
    /\ new_records' = <<>>
    /\ ridx' = 0
    /\ inserted_count' = 0
    /\ failed_count' = 0
    /\ last' = NoCall
    /\ UNCHANGED <<direct, store, env, program, walker, lists, update_records, uidx,
                   updated_count, update_failed_count>>

\* a loop that ends at the first pair that fails
PairsDoneUntilFailure(result, done, pairs) ==
    IF result = "Err" THEN Len(pairs) ELSE done + 1

\* the loop of update_null_img_records goes on to the next pair after Ok and after Err
\* (serialize.rs:233-246)
PairsDone(result, done, pairs) == done + 1

\* one iteration of the loop of update_null_img_records; main has logged and dropped the
\* result of serialize_records (main.rs:95-98)
UpdateNullImgRecordsStep ==
    /\ pc = "update_null_img_records"
    /\ aws_s3_client
    /\ uidx < Len(update_records)
    /\ \E uploadOk \in BOOLEAN, failAt \in 0..1 :
         LET inmate_id == update_records[uidx + 1][1]
             record == update_records[uidx + 1][2]
             out == update_null_img_record(inmate_id, record, db, s3, aws_s3_client,
                                           uploadOk, failAt)
         IN /\ ~uploadOk => out.upload = "failed"
            /\ failAt = 1 => out.db_error
            /\ db' = out.db
            /\ s3' = out.s3
            /\ updated_count' = Tally(out.result, updated_count, update_failed_count)[1]
            /\ update_failed_count' =
                  Tally(out.result, updated_count, update_failed_count)[2]
            /\ last' = [op |-> "update_null_img_record", record |-> Some(record),
                        inmate_id |-> inmate_id, result |-> out.result,
                        upload |-> out.upload, db_error |-> out.db_error,
                        wrote |-> out.db # db, embedding |-> "none"]
            /\ uidx' = PairsDone(out.result, uidx, update_records)
    /\ returned' = [returned EXCEPT !.serialize_records = "none", !.count_query = "none"]
    /\ UNCHANGED <<direct, env, pc, program, walker, lists, handed, ridx, inserted_count,
                   failed_count>>

\* without an S3 client the function returns an error before its loop.  The consumed
\* vector and the counters end with the call; nothing of main reads the clients or the
\* logged result of serialize_records after it.
UpdateNullImgRecordsReturn ==
    /\ pc = "update_null_img_records"
    /\ ~aws_s3_client \/ uidx = Len(update_records)
    /\ LET result == IF aws_s3_client THEN "Ok" ELSE "Err"
       IN /\ returned' = [returned EXCEPT
                            !.serialize_records = "none", !.count_query = "none",
                            !.update_null_img_records = result,
                            !.main = IF Warned(result) = "()" THEN @ ELSE "Err"]
          /\ pc' = IF Warned(result) = "()" THEN "main_return" ELSE "exit"
    /\ update_records' = <<>>
    /\ uidx' = 0
    /\ updated_count' = 0
    /\ update_failed_count' = 0
    /\ last' = NoCall
    /\ aws_s3_client' = FALSE
    /\ oai_client' = FALSE
    /\ UNCHANGED <<direct, store, program, walker, lists, new_records, ridx,
                   inserted_count, failed_count>>

(***************************************************************************)
(* fetch_records (lib.rs): the walker without the filter.                  *)
(***************************************************************************)
\* a push at the front of the vector
PushRecordFirst(records, built) ==
    IF IsSome(built) THEN <<Unwrap(built)>> \o records ELSE records

\* `Ok(record) => records.push(record)`, `Err(e) => error!(..)`
PushRecord(records, built) ==
    IF IsSome(built) THEN Append(records, Unwrap(built)) ELSE records

\* a loop that does not look at the flag
CandidatesDoneIgnoringStop(stop, done, candidates) == done + 1

\* the candidates the loop is done with after one more: `if stop_early { return
\* Ok(records); }` at the end of the iteration (lib.rs:318-321) leaves the rest unvisited
CandidatesDone(stop, done, candidates) ==
    IF stop THEN Len(candidates) ELSE done + 1

\* fetch_inmate_sysids answers with the listing or fails; STOP_EARLY is read
FetchRecordsStart ==
    /\ pc = "idle"
    /\ program' = "fetch_records"
    /\ \/ /\ pc' = "exit"
          /\ returned' = [returned EXCEPT !.fetch = "Err"]
          /\ UNCHANGED <<sys_ids, stop_early>>
       \/ \E listing \in SeqsUpTo(Keys, MaxCandidates), stop \in BOOLEAN :
             /\ sys_ids' = listing
             /\ stop_early' = stop
             /\ pc' = "fetch_walk"
             /\ UNCHANGED returned
    /\ UNCHANGED <<direct, store, env, lists, idx, builds, net, handed, batch, last>>

\* one iteration of `for sys_id in sys_ids.iter()`
FetchRecordsStep ==
    /\ pc = "fetch_walk"
    /\ idx < Len(sys_ids)
    /\ \E built \in {None} \cup {Some(r) : r \in BuiltRecords(sys_ids[idx + 1])} :
         /\ builds' = Append(builds, [sys_id |-> sys_ids[idx + 1], record |-> built])
         /\ new_records' = PushRecord(new_records, built)
    /\ idx' = CandidatesDone(stop_early, idx, sys_ids)
    /\ UNCHANGED <<direct, store, env, pc, program, stop_early, lists, sys_ids, net,
                   update_records, batch, last, returned>>

\* `Ok(records)`
FetchRecordsReturn ==
    /\ pc = "fetch_walk"
    /\ idx = Len(sys_ids)
    /\ pc' = "exit"
    /\ returned' = [returned EXCEPT !.fetch = "Ok"]
    /\ UNCHANGED <<direct, store, env, program, walker, lists, handed, batch, last>>

NextWalker ==
    \/ FetchRecordsStart
    \/ FetchRecordsStep
    \/ FetchRecordsReturn
    \/ Exit

SpecWalker == Init /\ [][NextWalker]_vars

(***************************************************************************)
(* fetch_records followed request by request: the listing request, the     *)
(* detail request of Record::build and the image request of                *)
(* InmateProfile::build, with the sleeps between them.  Times are in       *)
(* milliseconds.                                                           *)
(***************************************************************************)
\* tokio::time::sleep(Duration::from_secs(1)) of fetch_inmate_sysids
ListingDelay == 1000

\* tokio::time::sleep(Duration::from_millis(75)) of InmateProfile::build
ImgDelay == 75

\* tokio::time::sleep(Duration::from_secs(10)) at the end of an iteration of fetch_records
CandidateDelay == 10000

\* `client.get(..).send()` is polled: the request is in flight
Sent(requests, name) ==
    [open |-> requests.open \cup {name}, sent |-> TRUE, slept |-> 0,
     gaps |-> requests.gaps \cup (IF requests.sent THEN {requests.slept} ELSE {})]

\* the response was read to its end, the request failed, or its future was dropped
Answered(requests, name) == [requests EXCEPT !.open = @ \ {name}]

\* a sleep that returns at once
SleptNothing(requests, ms) == requests

\* tokio::time::sleep(..).await
Slept(requests, ms) == [requests EXCEPT !.slept = @ + ms]

\* fetch_inmate_sysids sends the listing request (lib.rs:264-268)
ListingSend ==
    /\ pc = "idle"
    /\ program' = "fetch_records_paced"
    /\ \/ /\ net' = Answered(Sent(net, "listing"), "listing")
          /\ pc' = "exit"
          /\ returned' = [returned EXCEPT !.fetch = "Err"]
       \/ /\ net' = Sent(net, "listing")
          /\ pc' = "listing_sent"
          /\ UNCHANGED returned
    /\ UNCHANGED <<direct, store, env, lists, stop_early, sys_ids, idx, builds, handed,
                   batch, last>>

\* the sleep between the response and the reading of its body (lib.rs:269)
ListingSleep ==
    /\ pc = "listing_sent"
    /\ net' = Slept(net, ListingDelay)
    /\ pc' = "listing_slept"
    /\ UNCHANGED <<direct, store, env, program, lists, stop_early, sys_ids, idx, builds,
                   handed, batch, last, returned>>

\* the body is read and parsed (lib.rs:272-285); STOP_EARLY is read (lib.rs:306)
ListingBody ==
    /\ pc = "listing_slept"
    /\ net' = Answered(net, "listing")
    /\ \/ /\ pc' = "exit"
          /\ returned' = [returned EXCEPT !.fetch = "Err"]
          /\ UNCHANGED <<sys_ids, stop_early>>
       \/ \E listing \in SeqsUpTo(Keys, MaxCandidates), stop \in BOOLEAN :
             /\ sys_ids' = listing
             /\ stop_early' = stop
             /\ pc' = "paced_walk"
             /\ UNCHANGED returned
    /\ UNCHANGED <<direct, store, env, program, lists, idx, builds, handed, batch, last>>

\* Record::build sends the detail request (inmate.rs:590-593)
DetailSend ==
    /\ pc = "paced_walk"
    /\ idx < Len(sys_ids)
    /\ net' = Sent(net, "detail")
    /\ pc' = "detail_sent"
    /\ UNCHANGED <<direct, store, env, program, lists, stop_early, sys_ids, idx, builds,
                   handed, batch, last, returned>>

\* the detail request fails, or its body is read and parsed (inmate.rs:593-599); after a
\* NetworkError the walker logs and goes to the end of the iteration (lib.rs:314-316)
DetailBody ==
    /\ pc = "detail_sent"
    /\ net' = Answered(net, "detail")
    /\ \/ /\ builds' = Append(builds, [sys_id |-> sys_ids[idx + 1], record |-> None])
          /\ pc' = "iteration_end"
       \/ /\ pc' = "profile"
          /\ UNCHANGED builds
    /\ UNCHANGED <<direct, store, env, program, lists, stop_early, sys_ids, idx, handed,
                   batch, last, returned>>

\* InmateProfile::build starts with a sleep (inmate.rs:43)
ProfileSleep ==
    /\ pc = "profile"
    /\ net' = Slept(net, ImgDelay)
    /\ pc' = "profile_slept"
    /\ UNCHANGED <<direct, store, env, program, lists, stop_early, sys_ids, idx, builds,
                   handed, batch, last, returned>>

\* the document has no img element, or the image request is sent (inmate.rs:44-55, 61-62)
ImgSend ==
    /\ pc = "profile_slept"
    /\ \/ /\ pc' = "built"
          /\ UNCHANGED net
       \/ /\ net' = Sent(net, "img")
          /\ pc' = "img_sent"
    /\ UNCHANGED <<direct, store, env, program, lists, stop_early, sys_ids, idx, builds,
                   handed, batch, last, returned>>

\* the image request fails, its body is read (inmate.rs:62-85), or its future is dropped
\* by the `?` of set_core_profile_data (inmate.rs:59)
ImgBody ==
    /\ pc = "img_sent"
    /\ net' = Answered(net, "img")
    /\ pc' = "built"
    /\ UNCHANGED <<direct, store, env, program, lists, stop_early, sys_ids, idx, builds,
                   handed, batch, last, returned>>

\* Record::build returns and the walker pushes the Record or logs the error
\* (lib.rs:308-317)
RecordBuilt ==
    /\ pc = "built"
    /\ \E built \in {None} \cup {Some(r) : r \in BuiltRecords(sys_ids[idx + 1])} :
         /\ builds' = Append(builds, [sys_id |-> sys_ids[idx + 1], record |-> built])
         /\ new_records' = PushRecord(new_records, built)
    /\ pc' = "iteration_end"
    /\ UNCHANGED <<direct, store, env, program, lists, stop_early, sys_ids, idx, net,
                   update_records, batch, last, returned>>

\* the end of the iteration: return on STOP_EARLY, else sleep (lib.rs:318-323)
IterationEnd ==
    /\ pc = "iteration_end"
    /\ idx' = CandidatesDone(stop_early, idx, sys_ids)
    /\ net' = IF stop_early THEN net ELSE Slept(net, CandidateDelay)
    /\ pc' = "paced_walk"
    /\ UNCHANGED <<direct, store, env, program, lists, stop_early, sys_ids, builds, handed,
                   batch, last, returned>>

\* `Ok(records)`
PacedReturn ==
    /\ pc = "paced_walk"
    /\ idx = Len(sys_ids)
    /\ pc' = "exit"
    /\ returned' = [returned EXCEPT !.fetch = "Ok"]
    /\ UNCHANGED <<direct, store, env, program, walker, lists, handed, batch, last>>

NextPaced ==
    \/ ListingSend
    \/ ListingSleep
    \/ ListingBody
    \/ DetailSend
    \/ DetailBody
    \/ ProfileSleep
    \/ ImgSend
    \/ ImgBody
    \/ RecordBuilt
    \/ IterationEnd
    \/ PacedReturn
    \/ Exit

SpecPaced == Init /\ [][NextPaced]_vars

(***************************************************************************)
(* get_blacklist_and_updatelist called on any table.                        *)
(***************************************************************************)
\* ids a table of the explored size can carry: rolled-back inserts leave gaps
RowIds == 1..(MaxRows + 1)

\* an inmate row with the given id, natural key and image key; the other columns are
\* those of a Record stored under that id
RowOf(id, scil_sysid, img_url) ==
    [id |-> id, first_name |-> "a", last_name |-> "bc", dob |-> 19900102,
     booking_date |-> id, img_url |-> img_url, scil_sysid |-> scil_sysid]

SysIdColumn == {None} \cup {Some(k) : k \in Keys}

ImgUrlColumn == {None, Some(""), Some("mugshots/<>")}

\* the tables of at most MaxRows rows, in the order of their ids
Tables ==
    UNION { { [i \in 1..Cardinality(ids) |->
                 RowOf(CHOOSE id \in ids : Cardinality({j \in ids : j < id}) = i - 1,
                       keys[i], urls[i])] :
              keys \in [1..Cardinality(ids) -> SysIdColumn],
              urls \in [1..Cardinality(ids) -> ImgUrlColumn] } :
            ids \in {x \in SUBSET RowIds : Cardinality(x) <= MaxRows} }

InitFilter ==
    /\ db \in {[EmptyDb EXCEPT !.inmate = t] : t \in Tables}
    /\ s3 = {}
    /\ arg = None
    /\ ret = None
    /\ NotStarted

GetBlacklistAndUpdatelist ==
    /\ pc = "idle"
    /\ \E limit \in 0..(MaxWindow + 1) :
         LET f == get_blacklist_and_updatelist(limit, db.inmate)
         IN /\ n' = limit
            /\ blacklist' = f.blacklist
            /\ updatelist' = f.updatelist
    /\ program' = "filter"
    /\ pc' = "exit"
    /\ UNCHANGED <<arg, ret, store, env, walker, handed, batch, last, returned>>

NextFilter ==
    \/ GetBlacklistAndUpdatelist

SpecFilter == InitFilter /\ [][NextFilter]_vars

(***************************************************************************)
(* update_null_img_record called with any row id, Record and client on any *)
(* table.                                                                  *)
(***************************************************************************)
\* rows of the other tables, left by earlier Records
OtherTables ==
    [EmptyDb EXCEPT !.alias = {[id |-> 1, alias |-> "x"]},
                    !.inmate_alias = {[inmate_id |-> 1, alias_id |-> 1]},
                    !.img = <<[inmate_id |-> 1, img |-> None]>>,
                    !.bond = <<[inmate_id |-> 1, type |-> "cash", amount_pennies |-> 2]>>,
                    !.charge = <<[inmate_id |-> 1, description |-> "theft",
                                  grade |-> "Felony", offense_date |-> "2024-03-09"]>>]

InitBackfill ==
    /\ db \in {[OtherTables EXCEPT !.inmate = t] : t \in {u \in Tables : Len(u) < MaxRows}}
    /\ s3 = {}
    /\ arg = None
    /\ ret = None
    /\ NotStarted

UpdateNullImgRecord ==
    /\ pc = "idle"
    /\ \E inmate_id \in RowIds, sys_id \in Keys, s3c \in BOOLEAN, uploadOk \in BOOLEAN,
          failAt \in 0..1 :
         \E record \in BuiltRecords(sys_id) :
            LET out == update_null_img_record(inmate_id, record, db, s3, s3c, uploadOk,
                                              failAt)
            IN /\ ~uploadOk => out.upload = "failed"
               /\ failAt = 1 => out.db_error
               /\ aws_s3_client' = s3c
               /\ db' = out.db
               /\ s3' = out.s3
               /\ last' = [op |-> "update_null_img_record", record |-> Some(record),
                           inmate_id |-> inmate_id, result |-> out.result,
                           upload |-> out.upload, db_error |-> out.db_error,
                           wrote |-> out.db # db, embedding |-> "none"]
    /\ program' = "backfill"
    /\ pc' = "exit"
    /\ UNCHANGED <<direct, oai_client, walker, lists, handed, batch, returned>>

NextBackfill ==
    \/ UpdateNullImgRecord

SpecBackfill == InitBackfill /\ [][NextBackfill]_vars

(***************************************************************************)
(* Text.  Where the program reads a string character by character the      *)
(* string is a sequence of one-character strings.                          *)
(***************************************************************************)
\* longest text a function of utils.rs or get_aliases is explored on
MaxText == 4
\* width of the u64 that dollars_to_cents parses into, scaled for exploration
U64Bits == 8

Whitespace == {" "}

RECURSIVE TrimStart(_)
TrimStart(text) ==
    IF text # <<>> /\ Head(text) \in Whitespace THEN TrimStart(Tail(text)) ELSE text

RECURSIVE TrimEnd(_)
TrimEnd(text) ==
    IF text # <<>> /\ text[Len(text)] \in Whitespace
    THEN TrimEnd(SubSeq(text, 1, Len(text) - 1))
    ELSE text

\* str::trim
Trim(text) == TrimEnd(TrimStart(text))

\* str::to_lowercase on the letters of the explored texts
ToLowercase(text) ==
    [i \in 1..Len(text) |->
        CASE text[i] = "F" -> "f"
          [] text[i] = "M" -> "m"
          [] OTHER -> text[i]]

Digits == <<"0", "1", "2", "3", "4", "5", "6", "7", "8", "9">>

\* char::is_digit(10)
IsDigit(c) == \E i \in 1..Len(Digits) : Digits[i] = c

DigitValue(c) == (CHOOSE i \in 1..Len(Digits) : Digits[i] = c) - 1

\* the number a run of decimal digits denotes
RECURSIVE ParseDecimal(_)
ParseDecimal(digits) ==
    IF digits = <<>> THEN 0
    ELSE ParseDecimal(SubSeq(digits, 1, Len(digits) - 1)) * 10
           + DigitValue(digits[Len(digits)])

\* str::parse::<u64>: an error on the empty string and on a value that does not fit
ParseU64(digits) ==
    IF digits # <<>> /\ ParseDecimal(digits) < 2 ^ U64Bits
    THEN Some(ParseDecimal(digits))
    ELSE None

\* a parse of the text up to its first character that is no digit
dollars_to_cents_of_leading_digits(dollars) ==
    LET stop == IF \E i \in 1..Len(dollars) : ~IsDigit(dollars[i])
                THEN CHOOSE i \in 1..Len(dollars) :
                        ~IsDigit(dollars[i]) /\ \A j \in 1..(i - 1) : IsDigit(dollars[j])
                ELSE Len(dollars) + 1
        cents == ParseU64(SubSeq(dollars, 1, stop - 1))
    IN IF IsSome(cents) THEN Unwrap(cents) ELSE 0

dollars_to_cents(dollars) ==
    LET cents == ParseU64(SelectSeq(dollars, IsDigit))
    IN IF IsSome(cents) THEN Unwrap(cents) ELSE 0

\* Display of a non-negative integer
RECURSIVE Decimal(_)
Decimal(value) ==
    IF value < 10 THEN <<Digits[value + 1]>>
    ELSE Decimal(value \div 10) \o <<Digits[(value % 10) + 1]>>

\* `{:02}`: zeros on the left up to a width of two
ZeroPadded2(text) == IF Len(text) < 2 THEN <<"0">> \o text ELSE text

\* the cents printed with `{}`
cents_to_dollars_unpadded(cents) ==
    <<"$">> \o Decimal(cents \div 100) \o <<".">> \o Decimal(cents % 100)

\* format!("${}.{:02}", cents / 100, cents % 100)
cents_to_dollars(cents) ==
    <<"$">> \o Decimal(cents \div 100) \o <<".">> \o ZeroPadded2(Decimal(cents % 100))

(***************************************************************************)
(* Record::build on any detail document (inmate.rs).  A document is what   *)
(* the selectors of the three builders find in it: the dt/dd pairs of the  *)
(* .table-display tables (dt trimmed and lowercased, dd the first text     *)
(* node), the answer to the image request, and the td texts of the rows of *)
(* the bond table and of the charges table.                                *)
(***************************************************************************)
\* largest number of rows of the bond table
MaxBondRows == 1
\* largest number of rows of the charges table
MaxChargeRows == 2

ResultOk(value) == [ok |-> TRUE, value |-> Some(value), error |-> "none"]

ResultErr(error) == [ok |-> FALSE, value |-> None, error |-> error]

\* InmateProfile::default() restricted to the fields the model carries
DefaultProfile ==
    [first_name |-> <<>>, last_name |-> <<>>, dob |-> <<>>, booking_date_iso8601 |-> <<>>,
     aliases |-> None, img_blob |-> None, scil_sys_id |-> None, embedding |-> None]

\* the pieces that survive, in the order of the text
RECURSIVE Split(_, _)
Split(text, sep) ==
    IF \A i \in 1..Len(text) : text[i] # sep THEN <<text>>
    ELSE LET at == CHOOSE i \in 1..Len(text) :
                      text[i] = sep /\ \A j \in 1..(i - 1) : text[j] # sep
         IN <<SubSeq(text, 1, at - 1)>> \o Split(SubSeq(text, at + 1, Len(text)), sep)

IsNotEmpty(text) == text # <<>>

\* a split that keeps the pieces as they are
get_aliases_untrimmed(aliases) ==
    LET alias_vec == SelectSeq(Split(aliases, ","), IsNotEmpty)
    IN IF Len(alias_vec) = 0 THEN None ELSE Some(alias_vec)

get_aliases(aliases) ==
    LET pieces == Split(aliases, ",")
        alias_vec == SelectSeq([i \in 1..Len(pieces) |-> Trim(pieces[i])], IsNotEmpty)
    IN IF Len(alias_vec) = 0 THEN None ELSE Some(alias_vec)

\* the arms of the match that set a field the model carries; every other label leaves
\* the profile as it is
RECURSIVE set_core_profile_data(_, _)
set_core_profile_data(profile, pairs) ==
    IF pairs = <<>> THEN profile
    ELSE LET dt_text == Head(pairs)[1]
             dd_text == Trim(Head(pairs)[2])
         IN CASE dt_text = "first:" ->
                   set_core_profile_data([profile EXCEPT !.first_name = dd_text],
                                         Tail(pairs))
              [] dt_text = "last:" ->
                   set_core_profile_data([profile EXCEPT !.last_name = dd_text],
                                         Tail(pairs))
              [] dt_text = "date of birth:" ->
                   set_core_profile_data([profile EXCEPT !.dob = dd_text], Tail(pairs))
              [] dt_text = "alias(es):" ->
                   set_core_profile_data([profile EXCEPT !.aliases = get_aliases(dd_text)],
                                         Tail(pairs))
              [] dt_text = "booking date time:" ->
                   set_core_profile_data(
                       [profile EXCEPT !.booking_date_iso8601 = dd_text], Tail(pairs))
              [] OTHER -> set_core_profile_data(profile, Tail(pairs))

\* bytes kept whatever the status of the response
ImgBlobOfAnyStatus(img) ==
    CASE img = "success" -> Some("jpg")
      [] img = "success_empty" -> Some("")
      [] img = "not_success" -> Some("jpg")
      [] OTHER -> None

\* what the awaited image request leaves in img_blob (inmate.rs:62-85)
ImgBlob(img) ==
    CASE img = "success" -> Some("jpg")
      [] img = "success_empty" -> Some("")
      [] OTHER -> None

InmateProfileBuild(doc, sys_id) ==
    LET profile == [set_core_profile_data(
                        [DefaultProfile EXCEPT !.scil_sys_id = Some(sys_id)], doc.pairs)
                      EXCEPT !.img_blob = ImgBlob(doc.img)]
    IN IF \/ profile.first_name = <<>>
          \/ profile.last_name = <<>>
          \/ profile.dob = <<>>
          \/ profile.booking_date_iso8601 = <<>>
       THEN ResultErr("ParseError")
       ELSE ResultOk(profile)

\* the loop over the rows of .inmates-bond-table: a row without a second or a third td
\* is skipped
RECURSIVE BondRows(_)
BondRows(rows) ==
    IF rows = <<>> THEN <<>>
    ELSE LET row == Head(rows)
         IN IF Len(row) < 3
            THEN BondRows(Tail(rows))
            ELSE <<[bond_type |-> row[2], bond_amount |-> dollars_to_cents(row[3])]>>
                   \o BondRows(Tail(rows))

\* a builder that refuses a document without bonds
BondInformationBuildRequiresBonds(doc) ==
    IF BondRows(doc.bond_rows) = <<>>
    THEN ResultErr("ParseError")
    ELSE ResultOk(BondRows(doc.bond_rows))

BondInformationBuild(doc) == ResultOk(BondRows(doc.bond_rows))

ChargeGradeFromString(text) ==
    IF ToLowercase(text) = <<"f", "e", "l", "o", "n", "y">> THEN "Felony" ELSE "Misdemeanor"

\* chrono::Utc::now().to_string()
Now == <<"n", "o", "w">>

\* the loop over the rows of .inmates-charges-table: every row gives a Charge, a missing
\* td gives a default
ChargeRows(rows) ==
    [i \in 1..Len(rows) |->
        [description |-> IF Len(rows[i]) >= 2 THEN Trim(rows[i][2]) ELSE <<>>,
         grade |-> IF Len(rows[i]) >= 3
                   THEN ChargeGradeFromString(Trim(rows[i][3]))
                   ELSE "Misdemeanor",
         offense_date |-> IF Len(rows[i]) >= 4 THEN Trim(rows[i][4]) ELSE Now]]

ChargeInformationBuild(doc) ==
    IF ChargeRows(doc.charge_rows) = <<>>
    THEN ResultErr("ParseError")
    ELSE ResultOk(ChargeRows(doc.charge_rows))

\* Record::build after the detail document was fetched (inmate.rs:596-606); the url field
\* of the Record is left out
RecordBuildBonds(profile, bond, charges) ==
    IF ~bond.ok THEN ResultErr(bond.error)
    ELSE IF ~charges.ok THEN ResultErr(charges.error)
    ELSE ResultOk([profile |-> Unwrap(profile.value), bond |-> Unwrap(bond.value),
                   charges |-> Unwrap(charges.value)])

RecordBuild(doc, sys_id) ==
    IF ~InmateProfileBuild(doc, sys_id).ok
    THEN ResultErr(InmateProfileBuild(doc, sys_id).error)
    ELSE RecordBuildBonds(InmateProfileBuild(doc, sys_id), BondInformationBuild(doc),
                          ChargeInformationBuild(doc))

CoreLabels == <<"first:", "last:", "date of birth:", "booking date time:">>

\* a dd is missing with its dt, holds blanks only, or holds a padded value
DdTexts == {<<" ">>, <<" ", "a">>}

\* the pairs of a page: the core labels that are present, then a label the profile has no
\* field for, then the aliases
PairsOf(dd) ==
    SelectSeq([i \in 1..Len(CoreLabels) |-> <<CoreLabels[i], dd[i]>>],
              LAMBDA pair : pair[2] # None)
      \o << <<"visits:", <<"3">>>>, <<"alias(es):", <<"x", ",", " ", "y", " ">>>> >>

BondTableRows ==
    { <<<<"d">>>>, <<<<"d">>, <<"c", "a", "s", "h">>, <<"$", "2", ".", "5", "0">>>> }

ChargeTableRows ==
    { <<>>,
      <<<<>>, <<" ", "t">>, <<"F", "e", "l", "o", "n", "y">>, <<"2", "4">>>> }

\* no img element; send() fails; a status that is not a success; a body that cannot be
\* read; a success with no bytes; a success with bytes
ImgAnswers ==
    {"no_img", "send_failed", "not_success", "body_unreadable", "success_empty", "success"}

Docs ==
    { [pairs |-> PairsOf(dd), img |-> img, bond_rows |-> bonds, charge_rows |-> charges] :
        dd \in [1..Len(CoreLabels) -> DdTexts \cup {None}],
        img \in ImgAnswers,
        bonds \in SeqsUpTo(BondTableRows, MaxBondRows),
        charges \in SeqsUpTo(ChargeTableRows, MaxChargeRows) }

InitBuild ==
    /\ db = EmptyDb
    /\ s3 = {}
    /\ arg \in Docs
    /\ ret = None
    /\ NotStarted

RecordBuildCall ==
    /\ pc = "idle"
    /\ \E sys_id \in Keys : ret' = RecordBuild(arg, sys_id)
    /\ program' = "build"
    /\ pc' = "exit"
    /\ UNCHANGED <<n, arg, store, env, walker, lists, handed, batch, last, returned>>

InmateProfileBuildCall ==
    /\ pc = "idle"
    /\ \E sys_id \in Keys : ret' = InmateProfileBuild(arg, sys_id)
    /\ program' = "profile_build"
    /\ pc' = "exit"
    /\ UNCHANGED <<n, arg, store, env, walker, lists, handed, batch, last, returned>>

NextBuild ==
    \/ RecordBuildCall
    \/ InmateProfileBuildCall

SpecBuild == InitBuild /\ [][NextBuild]_vars

(***************************************************************************)
(* get_aliases, dollars_to_cents and cents_to_dollars called on any text   *)
(* and any amount.                                                         *)
(***************************************************************************)
AliasChars == {"a", "b", " ", ","}

DollarChars == {"$", "0", "2", "9", "."}

Texts == SeqsUpTo(AliasChars, MaxText) \cup SeqsUpTo(DollarChars, MaxText)

\* the amounts of a u64
Amounts == 0..(2 ^ U64Bits - 1)

InitUtils ==
    /\ db = EmptyDb
    /\ s3 = {}
    /\ \/ arg \in {[text |-> t] : t \in Texts}
       \/ arg \in {[cents |-> a] : a \in Amounts}
    /\ ret = None
    /\ NotStarted

GetAliasesCall ==
    /\ pc = "idle"
    /\ "text" \in DOMAIN arg
    /\ ret' = get_aliases(arg.text)
    /\ program' = "get_aliases"
    /\ pc' = "exit"
    /\ UNCHANGED <<n, arg, store, env, walker, lists, handed, batch, last, returned>>

DollarsToCentsCall ==
    /\ pc = "idle"
    /\ "text" \in DOMAIN arg
    /\ ret' = dollars_to_cents(arg.text)
    /\ program' = "dollars_to_cents"
    /\ pc' = "exit"
    /\ UNCHANGED <<n, arg, store, env, walker, lists, handed, batch, last, returned>>

CentsToDollarsCall ==
    /\ pc = "idle"
    /\ "cents" \in DOMAIN arg
    /\ ret' = cents_to_dollars(arg.cents)
    /\ program' = "cents_to_dollars"
    /\ pc' = "exit"
    /\ UNCHANGED <<n, arg, store, env, walker, lists, handed, batch, last, returned>>

NextUtils ==
    \/ GetAliasesCall
    \/ DollarsToCentsCall
    \/ CentsToDollarsCall

SpecUtils == InitUtils /\ [][NextUtils]_vars

Next ==
    \/ MainStart
    \/ FetchRecordsFilteredStart
    \/ FetchRecordsFilteredStep
    \/ FetchRecordsFilteredReturn
    \/ SerializeRecordsStep
    \/ SerializeRecordsReturn
    \/ UpdateNullImgRecordsStep
    \/ UpdateNullImgRecordsReturn
    \/ MainReturn
    \/ Exit

Spec == Init /\ [][Next]_vars

(***************************************************************************)
(* Properties.                                                             *)
(***************************************************************************)
\* the columns of UNIQUE (first_name, last_name, dob, booking_date)
Identity(row) == <<row.first_name, row.last_name, row.dob, row.booking_date>>

\* the core tuple of a Record as the INSERT casts it
CoreTuple(profile) ==
    <<profile.first_name, profile.last_name, CastDate(profile.dob),
      CastBookingDate(profile.booking_date_iso8601)>>

HasImage(row) == IsSome(row.img_url) /\ Unwrap(row.img_url) # ""

\* the rows a query for the k highest ids returns
HighestIds(k, rows) == {r \in rows : Cardinality({q \in rows : q.id > r.id}) < k}

\* a step in which serialize_records called serialize_record
SerializeRecordCalled == pc = "serialize_records" /\ ridx' = ridx + 1

\* the rows of a table (a sequence) that belong to an inmate row
RowsOf(table, inmate_id) == {i \in 1..Len(table) : table[i].inmate_id = inmate_id}

\* C1: the inmate table never holds two rows with the same (first_name, last_name, dob,
\* booking_date); a serialize_record call for a Record whose core tuple is already
\* persisted returns an error and leaves every table as it was (no inmate, bond, charge,
\* inmate_alias or img row of that Record).
C1_UniqueCoreTuple ==
    [][ /\ \A i, j \in 1..Len(db'.inmate) :
             Identity(db'.inmate[i]) = Identity(db'.inmate[j]) => i = j
        /\ ( /\ SerializeRecordCalled
             /\ \E r \in Range(db.inmate) :
                   Identity(r) = CoreTuple(Unwrap(last'.record).profile) )
           => (last'.result = "Err" /\ db' = db) ]_vars

\* a Record printed differently from the persisted row it duplicates was refused
C1_Witness ==
    /\ last.op = "serialize_record"
    /\ last.result = "Err"
    /\ ~last.wrote
    /\ Unwrap(last.record).profile.dob = "1990-1-2"
    /\ \E r \in Range(db.inmate) :
          /\ Identity(r) = CoreTuple(Unwrap(last.record).profile)
          /\ r.scil_sysid # Unwrap(last.record).profile.scil_sys_id

\* C2: serialize_record is atomic: when a database statement of the call fails before
\* the commit (or the commit fails), the call returns an error, and a call that returns
\* an error leaves none of the rows it wrote in the store.
C2_Atomic ==
    [][ SerializeRecordCalled =>
          /\ last'.db_error => last'.result = "Err"
          /\ last'.result = "Err" => db' = db ]_vars

\* a call failed after it had written rows inside its transaction
C2_Witness ==
    /\ last.op = "serialize_record"
    /\ last.result = "Err"
    /\ last.db_error
    /\ last.wrote
    /\ Len(Unwrap(last.record).bond) > 0

\* C3: when the inmate insert succeeded, the upload failed and no database statement
\* failed, serialize_record commits: the new row's img_url is the empty string, its
\* aliases, image, bonds and charges are written, the call returns Ok and
\* serialize_records counts the Record as inserted.
C3_UploadFailureCommits ==
    [][ (SerializeRecordCalled /\ last'.upload = "failed" /\ ~last'.db_error) =>
          LET record == Unwrap(last'.record)
              id == last'.inmate_id
              names == IF IsSome(record.profile.aliases)
                       THEN Range(Unwrap(record.profile.aliases)) \ {""} ELSE {}
          IN /\ last'.result = "Ok"
             /\ \A r \in Range(db.inmate) : r.id # id
             /\ \E r \in Range(db'.inmate) :
                   /\ r.id = id
                   /\ r.img_url = Some("")
                   /\ Identity(r) = CoreTuple(record.profile)
             /\ {a.alias : a \in {a \in db'.alias :
                     [inmate_id |-> id, alias_id |-> a.id] \in db'.inmate_alias}} = names
             /\ \E i \in RowsOf(db'.img, id) : db'.img[i].img = record.profile.img_blob
             /\ Cardinality(RowsOf(db'.bond, id)) = Len(record.bond)
             /\ Cardinality(RowsOf(db'.charge, id)) = Len(record.charges)
             /\ inserted_count' = inserted_count + 1
             /\ failed_count' = failed_count ]_vars

\* a Record with aliases, bonds and charges was committed after its upload had failed
C3_Witness ==
    /\ last.op = "serialize_record"
    /\ last.upload = "failed"
    /\ last.result = "Ok"
    /\ Len(Unwrap(last.record).bond) > 0
    /\ inserted_count > 0
    /\ \E r \in Range(db.inmate) : r.id = last.inmate_id /\ r.img_url = Some("")

\* the rows among the n highest ids that carry the key and no image
Unsynchronized(key, rows) ==
    {r \in HighestIds(n, rows) : r.scil_sysid = Some(key) /\ ~HasImage(r)}

FilterReturned == program = "filter" /\ pc = "exit"

\* the sets hold nothing but what the n most recent rows contribute
OnlyFromWindow ==
    /\ \A k \in blacklist :
          \E r \in HighestIds(n, Range(db.inmate)) : r.scil_sysid = Some(k) /\ HasImage(r)
    /\ \A k \in DOMAIN updatelist :
          \E r \in Unsynchronized(k, Range(db.inmate)) : updatelist[k] = r.id

\* C4 as stated: among the n rows with the highest ids, every row with a key and a null
\* or empty img_url has its key in the updatelist mapped to its row id, every row with a
\* key and a non-empty img_url has its key in the blacklist, and nothing else
\* contributes.
C4_EveryRowMappedToItsId ==
    FilterReturned =>
      /\ \A r \in HighestIds(n, Range(db.inmate)) :
            IsSome(r.scil_sysid) =>
               IF HasImage(r)
               THEN Unwrap(r.scil_sysid) \in blacklist
               ELSE /\ Unwrap(r.scil_sysid) \in DOMAIN updatelist
                    /\ updatelist[Unwrap(r.scil_sysid)] = r.id
      /\ OnlyFromWindow

\* C4 amended: among the n rows with the highest ids, every row with a key and a null or
\* empty img_url has its key in the updatelist, where the key is mapped to the lowest id
\* of such rows; every row with a key and a non-empty img_url has its key in the
\* blacklist; nothing else contributes.
C4_KeyMappedToLowestId ==
    FilterReturned =>
      /\ \A r \in HighestIds(n, Range(db.inmate)) :
            IsSome(r.scil_sysid) =>
               IF HasImage(r)
               THEN Unwrap(r.scil_sysid) \in blacklist
               ELSE /\ Unwrap(r.scil_sysid) \in DOMAIN updatelist
                    /\ updatelist[Unwrap(r.scil_sysid)] <= r.id
      /\ OnlyFromWindow

\* two rows of the window carry the same key and no image, a third row lies outside
C4_Witness ==
    /\ FilterReturned
    /\ n = 2
    /\ Len(db.inmate) = 3
    /\ \E k \in DOMAIN updatelist :
          /\ Cardinality(Unsynchronized(k, Range(db.inmate))) = 2
          /\ \E r \in Unsynchronized(k, Range(db.inmate)) : updatelist[k] < r.id
    /\ \E r \in Range(db.inmate) :
          /\ r \notin HighestIds(n, Range(db.inmate))
          /\ IsSome(r.scil_sysid)
          /\ Unwrap(r.scil_sysid) \notin blacklist \cup DOMAIN updatelist

\* C5 as stated: the blacklist and the updatelist main receives from one call of
\* get_blacklist_and_updatelist are disjoint in every reachable state of the store.
C5_Disjoint == blacklist \cap DOMAIN updatelist = {}

Fetched(key) == \E i \in 1..Len(builds) : builds[i].sys_id = key

\* C7 as stated: a candidate in the blacklist causes no fetch; a candidate in the
\* updatelist is fetched and, when built, handed to the backfill with the row id the
\* updatelist holds and not to the serializer; any other candidate is fetched and, when
\* built, handed to the serializer; no key is handed to both.
C7_OneRoute ==
    (program = "main" /\ pc = "walk") =>
      /\ \A i \in 1..Len(builds) : builds[i].sys_id \notin blacklist
      /\ \A i \in 1..Len(builds) :
            IsSome(builds[i].record) =>
               IF builds[i].sys_id \in DOMAIN updatelist
               THEN /\ \E u \in Range(update_records) :
                          u = <<updatelist[builds[i].sys_id], Unwrap(builds[i].record)>>
                    /\ Unwrap(builds[i].record) \notin Range(new_records)
               ELSE Unwrap(builds[i].record) \in Range(new_records)
      /\ ~stop_early =>
            \A j \in 1..idx :
               sys_ids[j] \in Keys \ blacklist \/ sys_ids[j] \in DOMAIN updatelist
                  => Fetched(sys_ids[j])
      /\ {r.profile.scil_sys_id : r \in Range(new_records)}
            \cap {u[2].profile.scil_sys_id : u \in Range(update_records)} = {}

\* a step in which update_null_img_record was called directly
UpdateNullImgRecordCalled == pc = "idle" /\ last'.op = "update_null_img_record"

\* C8: update_null_img_record returns an error without an upload or a database write
\* when the Record has no or empty image bytes or no S3 client is available; it returns an
\* error without a database write when the upload fails; when the upload and the UPDATE
\* succeed it returns Ok, the row with the given id has the key derived from the Record's
\* core attributes as its img_url and is otherwise unchanged, and every other row and
\* table is unchanged.
C8_BackfillFrame ==
    [][ UpdateNullImgRecordCalled =>
          LET record == Unwrap(last'.record)
              blob == record.profile.img_blob
              key == get_hash_on_core_attributes(record.profile)
          IN /\ (~IsSome(blob) \/ Unwrap(blob) = "" \/ ~aws_s3_client')
                  => /\ last'.result = "Err"
                     /\ last'.upload = "none"
                     /\ s3' = s3
                     /\ db' = db
             /\ last'.upload = "failed" => (last'.result = "Err" /\ db' = db)
             /\ last'.result = "Err" => db' = db
             /\ (last'.upload = "ok" /\ ~last'.db_error)
                  => /\ last'.result = "Ok"
                     /\ [key |-> key, body |-> Unwrap(blob)] \in s3'
                     /\ Len(db'.inmate) = Len(db.inmate)
                     /\ \A i \in 1..Len(db.inmate) :
                           db'.inmate[i] =
                              IF db.inmate[i].id = last'.inmate_id
                              THEN [db.inmate[i] EXCEPT !.img_url = Some(key)]
                              ELSE db.inmate[i]
                     /\ [db' EXCEPT !.inmate = db.inmate] = db ]_vars

\* the call changed the image key of one row of a table of several rows
C8_Witness ==
    /\ last.op = "update_null_img_record"
    /\ last.result = "Ok"
    /\ last.wrote
    /\ Len(db.inmate) > 1
    /\ \E r \in Range(db.inmate) :
          /\ r.id = last.inmate_id
          /\ r.img_url = Some(get_hash_on_core_attributes(Unwrap(last.record).profile))
    /\ \E r \in Range(db.inmate) : r.id # last.inmate_id /\ ~HasImage(r)

\* C9: serialize_records calls serialize_record once for every Record of the batch, in
\* order, whatever the earlier calls and the embedding requests returned; the two counters
\* add up to the number of Records attempted, and the function returns only after the
\* last Record, with an error exactly when the final count query failed.
C9_EveryRecordAttempted ==
    [][ /\ (pc = "serialize_records" /\ ridx < Len(new_records))
             => /\ ridx' = ridx + 1
                /\ new_records' = new_records
                /\ last'.op = "serialize_record"
                /\ last'.record = Some(WithEmbedding(new_records[ridx + 1],
                                                     last'.embedding))
                /\ inserted_count' + failed_count' = ridx'
                /\ returned' = returned
        /\ (pc = "serialize_records" /\ pc' # "serialize_records")
             => /\ ridx = Len(new_records)
                /\ inserted_count + failed_count = Len(new_records)
                /\ returned'.serialize_records \in {"Ok", "Err"}
                /\ returned'.serialize_records = "Err"
                      <=> returned'.count_query = "failed" ]_vars

\* the second Record was attempted after the first had failed, and stored although its
\* embedding request had failed
C9_Witness ==
    /\ pc = "serialize_records"
    /\ ridx = 2
    /\ failed_count = 1
    /\ inserted_count = 1
    /\ last.result = "Ok"
    /\ last.embedding = "failed"

IsBuilt(b) == IsSome(b.record)

\* C10: with STOP_EARLY unset fetch_records has called Record::build once for each
\* candidate it has passed, in the order of the listing, whatever the earlier calls
\* returned; it returns only after the last candidate, and its list holds the Records
\* built, in candidate order.
C10_EveryCandidateBuilt ==
    (program = "fetch_records" /\ ~stop_early) =>
      /\ Len(builds) = idx
      /\ \A i \in 1..idx : builds[i].sys_id = sys_ids[i]
      /\ new_records = [i \in 1..Len(SelectSeq(builds, IsBuilt)) |->
                          Unwrap(SelectSeq(builds, IsBuilt)[i].record)]
      /\ returned.fetch = "Ok" => idx = Len(sys_ids)

\* the walk returned the two different Records built after a candidate that failed
C10_Witness ==
    /\ program = "fetch_records"
    /\ ~stop_early
    /\ returned.fetch = "Ok"
    /\ Len(sys_ids) = 3
    /\ ~IsSome(builds[1].record)
    /\ IsSome(builds[2].record)
    /\ IsSome(builds[3].record)
    /\ Len(new_records) = 2
    /\ new_records[1] # new_records[2]

\* C11: serialize_record attempts the upload only after its inmate insert succeeded: a
\* call for a Record the inmate table refuses (duplicate core tuple, failed cast) and a
\* call whose begin or inmate insert faults attempt no upload, leave the bucket as it was
\* and return an error.
C11_UploadAfterInsert ==
    [][ SerializeRecordCalled =>
          LET record == Unwrap(last'.record)
          IN /\ ~InmateConstraintsHold(db.inmate, record.profile) =>
                   (last'.upload = "none" /\ s3' = s3 /\ last'.result = "Err")
             /\ \A uploadOk \in BOOLEAN, failAt \in 1..2 :
                   LET out == serialize_record(record, db, s3, aws_s3_client, uploadOk,
                                               failAt)
                   IN out.upload = "none" /\ out.s3 = s3 /\ out.result = "Err" ]_vars

\* a Record that could have been uploaded was refused as a duplicate while an object of
\* an earlier Record is stored under its key
C11_Witness ==
    /\ last.op = "serialize_record"
    /\ last.result = "Err"
    /\ last.upload = "none"
    /\ has_s3_upload_criteria(Unwrap(last.record).profile, aws_s3_client)
    /\ \E r \in Range(db.inmate) : Identity(r) = CoreTuple(Unwrap(last.record).profile)
    /\ \E o \in s3 : o.key = get_hash_on_core_attributes(Unwrap(last.record).profile)

\* the number of the statement that persists the first alias of a call whose inmate
\* insert succeeded: begin, the INSERT and, after a failed upload, the patch come first
FirstAliasStmt(profile, client, uploadOk) ==
    IF UploadOutcome(profile, client, uploadOk) = "failed" THEN 4 ELSE 3

\* C12 as stated: when the statement that persists one alias of a Record fails and no
\* other statement faults, serialize_record still returns Ok and commits the inmate row
\* with its img row, bonds and charges.
C12_AliasFailureNotFatal ==
    (pc = "serialize_records" /\ ridx < Len(new_records)) =>
       LET record == new_records[ridx + 1]
       IN (UniqueAliases(record.profile) # <<>>
             /\ InmateConstraintsHold(db.inmate, record.profile)) =>
            \A uploadOk \in BOOLEAN :
               LET out == serialize_record(record, db, s3, aws_s3_client, uploadOk,
                             FirstAliasStmt(record.profile, aws_s3_client, uploadOk))
               IN /\ out.result = "Ok"
                  /\ \E r \in Range(out.db.inmate) :
                        r.id = out.inmate_id /\ Identity(r) = CoreTuple(record.profile)
                  /\ RowsOf(out.db.img, out.inmate_id) # {}
                  /\ Cardinality(RowsOf(out.db.bond, out.inmate_id)) = Len(record.bond)
                  /\ Cardinality(RowsOf(out.db.charge, out.inmate_id))
                        = Len(record.charges)

BuildReturned == program = "build" /\ pc = "exit"

\* the trimmed text the document gives for a label, empty when the label is missing
CoreTextOf(doc, label) ==
    LET hits == SelectSeq(doc.pairs, LAMBDA pair : pair[1] = label)
    IN IF hits = <<>> THEN <<>> ELSE Trim(hits[Len(hits)][2])

\* C13: on a fetched detail document Record::build returns a Record exactly when the four
\* core attributes are non-empty and the charges table has at least one row; the Record
\* then carries the four attributes, the key and one Charge per row; otherwise the call
\* returns ParseError and no Record.  The rows of the bond table do not matter.
C13_RecordIffCoreAndCharges ==
    BuildReturned =>
       /\ ret.ok <=> ( /\ \A i \in 1..Len(CoreLabels) : CoreTextOf(arg, CoreLabels[i]) # <<>>
                       /\ Len(arg.charge_rows) >= 1 )
       /\ ~ret.ok => (ret.error = "ParseError" /\ ret.value = None)
       /\ ret.ok =>
            LET record == Unwrap(ret.value)
            IN /\ record.profile.first_name = CoreTextOf(arg, "first:")
               /\ record.profile.last_name = CoreTextOf(arg, "last:")
               /\ record.profile.dob = CoreTextOf(arg, "date of birth:")
               /\ record.profile.booking_date_iso8601
                     = CoreTextOf(arg, "booking date time:")
               /\ IsSome(record.profile.scil_sys_id)
               /\ Len(record.charges) = Len(arg.charge_rows)

\* a Record was built from a document whose bond table gave no Bond
C13_Witness ==
    /\ BuildReturned
    /\ ret.ok
    /\ Unwrap(ret.value).bond = <<>>
    /\ Len(Unwrap(ret.value).charges) = Len(arg.charge_rows)
    /\ Unwrap(ret.value).profile.first_name = <<"a">>

Aborted == returned.main \in {"Err", "panic"}

\* C14 as stated: main ends with an error only when the database connection cannot be
\* established or the candidates cannot be enumerated.
C14_OnlyTwoAborts ==
    Aborted => (returned.connect = "Err" \/ returned.fetch = "Err")

\* C14 amended: main ends with an error only when the database connection cannot be
\* established, create_dbs fails, the query of the filter fails or the candidates cannot
\* be enumerated; once the walker has returned its two lists main ends with Ok, whatever
\* the extraction of a Record, serialize_records and update_null_img_records returned.
C14_AbortsOnlyBeforeTheBatches ==
    /\ Aborted => \/ returned.connect = "Err"
                  \/ returned.create_dbs \in {"Err", "panic"}
                  \/ returned.get_blacklist_and_updatelist = "Err"
                  \/ returned.fetch = "Err"
    /\ (program = "main" /\ returned.fetch = "Ok") =>
          /\ ~Aborted
          /\ pc = "exit" => returned.main = "Ok"

\* main ended with Ok although update_null_img_records had returned an error
C14_Witness ==
    /\ program = "main"
    /\ pc = "exit"
    /\ returned.main = "Ok"
    /\ returned.update_null_img_records = "Err"

\* C15 as stated: the walker fetches the detail pages in the reverse of the order in
\* which the keys appear in the listing document.
C15_OldestFirst ==
    program = "fetch_records" =>
       \A i \in 1..Len(builds) : builds[i].sys_id = Reverse(sys_ids)[i]

\* C16: with STOP_EARLY set fetch_records calls Record::build for the first candidate
\* only, completes it, and returns Ok with the list of what that candidate built: one
\* Record, or none when the build failed.
C16_StopEarly ==
    (program = "fetch_records" /\ stop_early) =>
       /\ Len(builds) <= 1
       /\ \A i \in 1..Len(builds) : builds[i].sys_id = sys_ids[i]
       /\ new_records = IF builds # <<>> /\ IsSome(builds[1].record)
                        THEN <<Unwrap(builds[1].record)>>
                        ELSE <<>>
       /\ pc = "exit" => ( /\ returned.fetch = "Ok"
                           /\ sys_ids # <<>> => Len(builds) = 1 )

\* the walker returned one Record and left a second candidate unvisited
C16_Witness ==
    /\ program = "fetch_records"
    /\ stop_early
    /\ pc = "exit"
    /\ returned.fetch = "Ok"
    /\ Len(sys_ids) >= 2
    /\ Len(builds) = 1
    /\ Len(new_records) = 1

\* the positions around the pieces of a text: before it, its commas, after it
Commas(text) == {0} \cup {i \in 1..Len(text) : text[i] = ","} \cup {Len(text) + 1}

\* the piece that starts after position p, without the whitespace around it
PieceAfter(text, p) ==
    LET q == CHOOSE c \in Commas(text) :
                c > p /\ \A d \in Commas(text) : d > p => c <= d
        inked == {i \in (p + 1)..(q - 1) : text[i] \notin Whitespace}
    IN IF inked = {} THEN <<>>
       ELSE SubSeq(text, CHOOSE i \in inked : \A j \in inked : i <= j,
                         CHOOSE i \in inked : \A j \in inked : j <= i)

\* the positions after which a piece that is not empty starts
Surviving(text) ==
    {p \in Commas(text) \ {Len(text) + 1} : PieceAfter(text, p) # <<>>}

\* C17: get_aliases returns the comma-separated pieces of the text, each trimmed, the
\* empty ones dropped, in the order of the text; it returns None exactly when no piece
\* survives and never an empty list; no alias returned is empty or starts or ends with
\* whitespace.
C17_TrimmedPieces ==
    (program = "get_aliases" /\ pc = "exit") =>
       LET text == arg.text
           kept == Surviving(text)
       IN /\ ret = None <=> kept = {}
          /\ IsSome(ret) =>
               LET aliases == Unwrap(ret)
               IN /\ Len(aliases) = Cardinality(kept)
                  /\ \A p \in kept :
                        aliases[Cardinality({q \in kept : q <= p})] = PieceAfter(text, p)
                  /\ \A i \in 1..Len(aliases) :
                        /\ aliases[i] # <<>>
                        /\ aliases[i][1] \notin Whitespace
                        /\ aliases[i][Len(aliases[i])] \notin Whitespace

\* two aliases were returned in the order of a text that pads one of them
C17_Witness ==
    /\ program = "get_aliases"
    /\ pc = "exit"
    /\ arg.text = <<"b", ",", " ", "a">>
    /\ ret = Some(<< <<"b">>, <<"a">> >>)

\* the positions of the decimal digits of a text
DigitPositions(text) == {i \in 1..Len(text) : text[i] \in {"0", "1", "2", "3", "4", "5", "6", "7", "8", "9"}}

\* the number written by the digits of a text at the positions of a set, each digit
\* weighted by the count of digits after it
RECURSIVE WrittenValue(_, _)
WrittenValue(text, positions) ==
    IF positions = {} THEN 0
    ELSE LET i == CHOOSE p \in positions : \A q \in positions : q <= p
             digit == CHOOSE d \in 0..9 : Digits[d + 1] = text[i]
         IN digit + 10 * WrittenValue(text, positions \ {i})

\* C18: dollars_to_cents returns the number written by the decimal digits of the text
\* in their order, whatever stands between them; it returns 0 when the text has no
\* digit or when that number does not fit the unsigned integer.
C18_DigitsValue ==
    (program = "dollars_to_cents" /\ pc = "exit") =>
       LET positions == DigitPositions(arg.text)
           written == WrittenValue(arg.text, positions)
       IN ret = IF positions = {} \/ written >= 2 ^ U64Bits THEN 0 ELSE written

\* a text with a currency sign and a point between its digits was read as one number
C18_Witness ==
    /\ program = "dollars_to_cents"
    /\ pc = "exit"
    /\ arg.text = <<"$", "2", ".", "9">>
    /\ ret = 29

\* the digits of a text wrote a number too large for the unsigned integer
C18_WitnessOverflow ==
    /\ program = "dollars_to_cents"
    /\ pc = "exit"
    /\ arg.text = <<"9", "9", "9">>
    /\ ret = 0

\* C19: for every amount a of the unsigned integer, cents_to_dollars(a) is "$", then
\* a / 100 in decimal, then ".", then a % 100 on exactly two digits, and
\* dollars_to_cents reads that text back as a.
C19_RoundTrip ==
    (program = "cents_to_dollars" /\ pc = "exit") =>
       LET a == arg.cents
           len == Len(ret)
           whole == 2..(len - 3)
       IN /\ len >= 5
          /\ ret[1] = "$"
          /\ ret[len - 2] = "."
          /\ DigitPositions(ret) = whole \cup {len - 1, len}
          /\ WrittenValue(ret, whole) = a \div 100
          /\ (len > 5 => ret[2] # "0")
          /\ WrittenValue(ret, {len - 1, len}) = a % 100
          /\ dollars_to_cents(ret) = a

\* an amount above one dollar with fewer than ten cents was formatted
C19_Witness ==
    /\ program = "cents_to_dollars"
    /\ pc = "exit"
    /\ arg.cents = 205
    /\ ret = <<"$", "2", ".", "0", "5">>

\* a step that is one call of serialize_record or of update_null_img_record
ImgUrlWritten ==
    \/ pc = "serialize_records" /\ ridx' = ridx + 1
    \/ pc = "update_null_img_records" /\ uidx' = uidx + 1

\* C20: whatever calls of serialize_record and update_null_img_record have run, every
\* committed inmate row has an img_url that is empty or the image key of the core
\* attributes of the Record whose call wrote it, the call that wrote a key has
\* uploaded the image under that key, and the bucket holds an object under the key of
\* every row that has one; no other step writes the table.
C20_ImgUrlIsEmptyOrUploadedKey ==
    [][/\ ImgUrlWritten =>
            LET key == get_hash_on_core_attributes(Unwrap(last'.record).profile)
            IN \A r \in Range(db'.inmate) \ Range(db.inmate) :
                  /\ r.img_url \in {Some(""), Some(key)}
                  /\ r.img_url = Some(key) =>
                        /\ last'.upload = "ok"
                        /\ [key |-> key, body |-> Unwrap(Unwrap(last'.record).profile.img_blob)]
                              \in s3'
       /\ ~ImgUrlWritten => db'.inmate = db.inmate
       /\ \A r \in Range(db'.inmate) :
             /\ IsSome(r.img_url)
             /\ HasImage(r) => \E o \in s3' : o.key = Unwrap(r.img_url)]_vars

\* a row that got its image from a call of update_null_img_record stands next to
\* another row that has an image
C20_Witness ==
    /\ last.op = "update_null_img_record"
    /\ last.result = "Ok"
    /\ \E r \in Range(db.inmate) :
          /\ r.id = last.inmate_id
          /\ r.img_url = Some(get_hash_on_core_attributes(Unwrap(last.record).profile))
    /\ \E r \in Range(db.inmate) : r.id # last.inmate_id /\ HasImage(r)

\* C21: every call of serialize_record that uploaded an image commits an inmate row
\* whose img_url is the key of the upload.
C21_UploadedImageIsCommitted ==
    [][ (SerializeRecordCalled /\ last'.upload = "ok") =>
           /\ last'.result = "Ok"
           /\ \E r \in Range(db'.inmate) :
                 /\ r.id = last'.inmate_id
                 /\ r.img_url =
                       Some(get_hash_on_core_attributes(Unwrap(last'.record).profile)) ]_vars

\* the image bytes of a profile are present and not empty and an S3 client is available
Eligible(profile, client) ==
    /\ profile.img_blob # None
    /\ profile.img_blob # Some("")
    /\ client

\* C22: serialize_profile attempts an upload, and inserts the inmate row with a non-empty
\* img_url, only for a Record whose image bytes are present and not empty while an S3
\* client is available; for every other Record no upload is attempted, the bucket is left
\* as it was and the row is inserted, and committed, with the empty string as img_url.
C22_UploadOnlyWhenEligible ==
    [][ SerializeRecordCalled =>
          LET profile == Unwrap(last'.record).profile
              ins == InsertInmate(Begin(db), profile, S3ImgUrl(profile, aws_s3_client), 0)
              row == ins.tx.db.inmate[Len(ins.tx.db.inmate)]
          IN /\ last'.upload # "none" => Eligible(profile, aws_s3_client)
             /\ s3' # s3 => Eligible(profile, aws_s3_client)
             /\ ins.ok => (row.img_url # Some("") <=> Eligible(profile, aws_s3_client))
             /\ ~Eligible(profile, aws_s3_client) =>
                   /\ last'.upload = "none"
                   /\ s3' = s3
                   /\ ins.ok => row.img_url = Some("")
                   /\ \A r \in Range(db'.inmate) \ Range(db.inmate) :
                         r.img_url = Some("") ]_vars

\* with an S3 client at hand, a Record whose image request was answered with no bytes was
\* committed without an upload
C22_Witness ==
    /\ last.op = "serialize_record"
    /\ last.result = "Ok"
    /\ last.upload = "none"
    /\ aws_s3_client
    /\ Unwrap(last.record).profile.img_blob = Some("")
    /\ \E r \in Range(db.inmate) : r.id = last.inmate_id /\ r.img_url = Some("")

\* the ids of the committed inmate rows
InmateIds(tables) == {r.id : r \in Range(tables.inmate)}

\* the rows a table gained in a step: the table is only appended to
Gained(before, after) ==
    IF Len(after) >= Len(before) /\ SubSeq(after, 1, Len(before)) = before
    THEN {after[i] : i \in (Len(before) + 1)..Len(after)}
    ELSE {[inmate_id |-> 0]}

\* every inmate has one img row; img, bond, charge and inmate_alias rows refer to inmates
ChildrenOfInmates(tables) ==
    /\ \A id \in InmateIds(tables) : Cardinality(RowsOf(tables.img, id)) = 1
    /\ \A i \in 1..Len(tables.img) : tables.img[i].inmate_id \in InmateIds(tables)
    /\ \A i \in 1..Len(tables.bond) : tables.bond[i].inmate_id \in InmateIds(tables)
    /\ \A i \in 1..Len(tables.charge) : tables.charge[i].inmate_id \in InmateIds(tables)
    /\ \A l \in tables.inmate_alias : l.inmate_id \in InmateIds(tables)

\* C23: a call of serialize_record that commits adds, for the id of its new inmate row,
\* one img row holding the image bytes of the Record (null when it has none), one bond
\* row per bond and one charge row per charge of the Record, and nothing for another id;
\* no other step adds or removes an inmate, img, bond, charge or inmate_alias row.  So
\* every committed inmate has exactly one img row and the bond and charge rows of its
\* Record, and no img, bond, charge or inmate_alias row refers to an id that is not
\* committed.
C23_ChildRowsOfCommittedInmates ==
    [][ /\ (SerializeRecordCalled /\ last'.result = "Ok") =>
             LET record == Unwrap(last'.record)
                 id == last'.inmate_id
             IN /\ InmateIds(db') = InmateIds(db) \cup {id}
                /\ id \notin InmateIds(db)
                /\ Gained(db.img, db'.img) =
                      {[inmate_id |-> id, img |-> record.profile.img_blob]}
                /\ Cardinality(RowsOf(db'.img, id)) = 1
                /\ \A row \in Gained(db.bond, db'.bond) : row.inmate_id = id
                /\ Cardinality(RowsOf(db'.bond, id)) = Len(record.bond)
                /\ \A row \in Gained(db.charge, db'.charge) : row.inmate_id = id
                /\ Cardinality(RowsOf(db'.charge, id)) = Len(record.charges)
                /\ \A l \in db'.inmate_alias \ db.inmate_alias : l.inmate_id = id
                /\ db.inmate_alias \subseteq db'.inmate_alias
        /\ ~(SerializeRecordCalled /\ last'.result = "Ok") =>
             /\ InmateIds(db') = InmateIds(db)
             /\ db'.img = db.img
             /\ db'.bond = db.bond
             /\ db'.charge = db.charge
             /\ db'.inmate_alias = db.inmate_alias
        /\ ChildrenOfInmates(db') ]_vars

\* a Record with bonds and charges was committed next to an inmate whose img row holds
\* null bytes
C23_Witness ==
    /\ last.op = "serialize_record"
    /\ last.result = "Ok"
    /\ Len(Unwrap(last.record).bond) = 2
    /\ Cardinality(RowsOf(db.bond, last.inmate_id)) = 2
    /\ Cardinality(RowsOf(db.charge, last.inmate_id)) = 2
    /\ \E i \in 1..Len(db.img) : db.img[i].img = None /\ db.img[i].inmate_id # last.inmate_id

\* the distinct non-empty aliases a Record lists
AliasesOf(record) ==
    IF record.profile.aliases = None THEN {}
    ELSE {Unwrap(record.profile.aliases)[i] :
             i \in 1..Len(Unwrap(record.profile.aliases))} \ {""}

\* C24: the alias table never holds two rows with the same value or the same id, nor an
\* empty value, and never loses or changes a row; a call of serialize_record that commits
\* creates alias rows for the aliases of its Record that had none and for nothing else,
\* and links its inmate once to the row of each distinct non-empty alias of the Record
\* and to no other row, however often the Record lists an alias; a call that fails and
\* every other step leave the alias table and the links as they were.
C24_AliasesSharedAndLinkedOnce ==
    [][ /\ \A a, b \in db'.alias : (a.alias = b.alias \/ a.id = b.id) => a = b
        /\ \A a \in db'.alias : a.alias # ""
        /\ db.alias \subseteq db'.alias
        /\ (SerializeRecordCalled /\ last'.result = "Ok") =>
             LET record == Unwrap(last'.record)
                 id == last'.inmate_id
                 links == {l \in db'.inmate_alias : l.inmate_id = id}
             IN /\ {a.alias : a \in db'.alias \ db.alias} =
                      AliasesOf(record) \ {a.alias : a \in db.alias}
                /\ {a.alias : a \in {a \in db'.alias :
                        [inmate_id |-> id, alias_id |-> a.id] \in links}} = AliasesOf(record)
                /\ Cardinality(links) = Cardinality(AliasesOf(record))
                /\ \A l \in links : \E a \in db'.alias : a.id = l.alias_id
        /\ ~(SerializeRecordCalled /\ last'.result = "Ok") =>
             /\ db'.alias = db.alias
             /\ db'.inmate_alias = db.inmate_alias ]_vars

\* a Record that lists one of its aliases twice was committed and linked to the alias
\* rows that an earlier inmate had created
C24_Witness ==
    /\ last.op = "serialize_record"
    /\ last.result = "Ok"
    /\ Unwrap(last.record).profile.aliases = Some(<<"x", "y", "x">>)
    /\ Cardinality(db.alias) = 2
    /\ Cardinality({l \in db.inmate_alias : l.inmate_id = last.inmate_id}) = 2
    /\ \E l \in db.inmate_alias : l.inmate_id # last.inmate_id

\* C25 as stated: of the rows with a natural key among the n most recent, a row that has
\* no image (its Record was committed without a successful upload and no backfill has
\* reached it) has its key in the updatelist of the next call of the filter, mapped to
\* its id; and the row that a successful update_null_img_record has just written has its
\* key in the blacklist, and not in the updatelist, of a call of the filter on the
\* tables that update leaves.
C25_FilterFollowsImageState ==
    [][ /\ (program' = "main" /\ pc = "idle" /\ pc' = "listing") =>
             \A r \in HighestIds(MaxWindow, Range(db.inmate)) :
                (IsSome(r.scil_sysid) /\ ~HasImage(r)) =>
                   /\ Unwrap(r.scil_sysid) \in DOMAIN updatelist'
                   /\ updatelist'[Unwrap(r.scil_sysid)] = r.id
        /\ (pc = "update_null_img_records" /\ uidx' = uidx + 1 /\ last'.result = "Ok") =>
             LET f == get_blacklist_and_updatelist(MaxWindow, db'.inmate)
             IN \A r \in HighestIds(MaxWindow, Range(db'.inmate)) :
                   (r.id = last'.inmate_id /\ IsSome(r.scil_sysid)) =>
                      /\ Unwrap(r.scil_sysid) \in f.blacklist
                      /\ Unwrap(r.scil_sysid) \notin DOMAIN f.updatelist ]_vars

\* update_null_img_records is running and has moved on in its list of pairs
PairAttempted == pc = "update_null_img_records" /\ pc' = pc /\ uidx' # uidx

\* update_null_img_records returns
UpdateNullImgRecordsReturned == pc = "update_null_img_records" /\ pc' # pc

\* C26: without an S3 client update_null_img_records returns an error before it attempts
\* any pair, leaving store and bucket as they were; with a client it attempts the pairs
\* one after the other in the order of the list, each exactly once, whatever the earlier
\* attempts returned, counts every attempt once as updated or as failed, and returns Ok
\* after the last pair with updated_count + failed_count equal to the number of pairs.
C26_EveryPairAttempted ==
    [][ /\ PairAttempted =>
             /\ aws_s3_client
             /\ uidx' = uidx + 1
             /\ last'.op = "update_null_img_record"
             /\ last'.inmate_id = update_records[uidx'][1]
             /\ last'.record = Some(update_records[uidx'][2])
             /\ update_records' = update_records
             /\ IF last'.result = "Ok"
                THEN /\ updated_count' = updated_count + 1
                     /\ update_failed_count' = update_failed_count
                ELSE /\ updated_count' = updated_count
                     /\ update_failed_count' = update_failed_count + 1
        /\ UpdateNullImgRecordsReturned =>
             IF aws_s3_client
             THEN /\ returned'.update_null_img_records = "Ok"
                  /\ uidx = Len(update_records)
                  /\ updated_count + update_failed_count = Len(update_records)
             ELSE /\ returned'.update_null_img_records = "Err"
                  /\ uidx = 0
                  /\ updated_count + update_failed_count = 0
                  /\ db' = db
                  /\ s3' = s3
        /\ pc' = "update_null_img_records" =>
             updated_count' + update_failed_count' = uidx' ]_vars

\* the second of two pairs was updated after the first had failed
C26_Witness ==
    /\ pc = "update_null_img_records"
    /\ Len(update_records) = 2
    /\ uidx = 2
    /\ update_failed_count = 1
    /\ updated_count = 1
    /\ last.op = "update_null_img_record"
    /\ last.result = "Ok"

\* the image requests that end with a success status and a readable body
ImgFetched == {"success_empty", "success"}

\* C27: in InmateProfile::build the answer to the image request decides nothing but
\* img_blob: the build of a document succeeds or fails as the build of the same document
\* without an img element does, and with the same error; a profile that is built equals
\* the one built without the img element in every field but img_blob; img_blob is set
\* exactly when the request returned a success status with a readable body, and is
\* absent without an img element, after a transport error, a status that is not a
\* success or a body that cannot be read.
C27_ImageFetchNeverFailsBuild ==
    (program = "profile_build" /\ pc = "exit") =>
       \E sys_id \in Keys :
          LET alone == InmateProfileBuild([arg EXCEPT !.img = "no_img"], sys_id)
          IN /\ ret.ok = alone.ok
             /\ ret.error = alone.error
             /\ ret.ok =>
                  LET profile == Unwrap(ret.value)
                  IN /\ [profile EXCEPT !.img_blob = None] = Unwrap(alone.value)
                     /\ profile.img_blob # None <=> arg.img \in ImgFetched
                     /\ arg.img \in {"no_img", "send_failed", "not_success",
                                     "body_unreadable"} => profile.img_blob = None

\* a profile was built without image after a response that was not a success
C27_Witness ==
    /\ program = "profile_build"
    /\ pc = "exit"
    /\ arg.img = "not_success"
    /\ ret.ok
    /\ Unwrap(ret.value).img_blob = None
    /\ Unwrap(ret.value).first_name = <<"a">>

C29_StoredAmountIsBondAmount ==
    [][ (SerializeRecordCalled /\ last'.result = "Ok") =>
          LET record == Unwrap(last'.record)
              rows == SubSeq(db'.bond, Len(db.bond) + 1, Len(db'.bond))
          IN /\ Len(rows) = Len(record.bond)
             /\ \A i \in 1..Len(rows) :
                   /\ rows[i].amount_pennies = record.bond[i].bond_amount
                   /\ rows[i].amount_pennies >= 0 ]_vars

\* the four core attributes of a profile as the extractor read them
CoreAttributes(profile) ==
    <<profile.first_name, profile.last_name, profile.dob, profile.booking_date_iso8601>>

\* C30 as stated: two Records handed over for persistence whose profiles differ in at
\* least one core attribute never give the same input to the image-key hash, hence never
\* the same image key.
C30_DistinctProfilesDistinctKeys ==
    \A r1, r2 \in Range(new_records) :
        CoreAttributes(r1.profile) # CoreAttributes(r2.profile) =>
            get_hash_on_core_attributes(r1.profile) # get_hash_on_core_attributes(r2.profile)
====
